---- MODULE Spec2Model ----
(***************************************************************************)
(* Verification model of athenadef: the diff engine (src/differ.rs), the   *)
(* query execution client and the bounded parallel executor               *)
(* (src/aws/athena.rs), the target filter (src/target_filter.rs).          *)
(*                                                                         *)
(* Strings of the program are sequences of one-character strings, so that  *)
(* formatting, splitting and trimming are computed and not assumed.        *)
(***************************************************************************)
EXTENDS Integers, Sequences, FiniteSets, TLC

VARIABLES
    \* ---- Differ::calculate_diff ----
    d_pc,            \* position inside calculate_diff / compute_table_diffs
    local_tables,    \* HashMap<String, SqlFile> of get_local_tables
    remote_tables,   \* HashMap<String, String> of get_remote_tables
    todo,            \* keys the running `for` loop has not visited yet
    table_diffs,     \* Vec<TableDiff> under construction
    diff_result,     \* the returned Result<DiffResult>
    target_filter,   \* the target_filter argument of calculate_diff
    databases,       \* get_remote_tables: the listed databases
    tables_by_db,    \* get_remote_tables: the listed tables of each database
    all_tables,      \* get_remote_tables: Vec of the (database, table) to fetch
    list_failed,     \* history: databases whose table listing failed
    fetch_failed,    \* history: tables whose SHOW CREATE TABLE execution failed
    submitted,       \* history: how often each query string was submitted
    \* ---- ParallelQueryExecutor ----
    x_pc,            \* position of the caller inside execute_queries / start_queries
    method,          \* which method of the executor is running
    queries,         \* the input Vec<String>
    x_idx,           \* index of the task being spawned, then of the task being joined
    t_pc,            \* per task: position inside the spawned async block
    t_exec,          \* per task: execution id returned by start_query_execution
    t_out,           \* per task: the value its JoinHandle yields
    permits,         \* available permits of the semaphore
    max_concurrent,  \* the permits the semaphore was created with
    executions,      \* the service's executions: id -> query string
    results,         \* Vec under construction in the caller
    x_ret,           \* what the method returned
    overtaken,       \* history: a task finished while an earlier one had not
    \* ---- QueryExecutor::wait_for_completion ----
    w_pc,            \* position inside the polling loop
    timeout_seconds, \* QueryExecutor.timeout_seconds
    elapsed,         \* start_time.elapsed(), in seconds
    remote_state,    \* state of the execution at the service
    response,        \* the last get_query_execution response
    w_ret,           \* what wait_for_completion returned
    requests,        \* operations wait_for_completion has sent to the service
    \* ---- target filter ----
    f_pc,            \* which function of target_filter.rs was applied last
    f_cli,           \* resolve_targets: cli_targets
    f_config,        \* resolve_targets: config_databases
    f_targets,       \* the list resolve_targets returned
    f_filter,        \* the closure parse_target_filter returned
    f_key,           \* the (database, table) the closure was called with
    f_verdict,       \* what the closure returned
    f_value,         \* matches_pattern: value
    f_pattern,       \* matches_pattern: pattern
    f_match,         \* what matches_pattern returned
    \* ---- detect_changes, normalize_sql, extract_ddl_from_query_result ----
    c_pc,            \* which function of differ.rs was applied last
    c_remote_sql,    \* detect_changes: remote_sql
    c_local_sql,     \* detect_changes: local_sql
    c_remote_columns,   \* detect_column_changes: remote_columns
    c_local_columns,    \* detect_column_changes: local_columns
    c_column_changes,   \* ChangeDetails.column_changes
    c_property_changes, \* ChangeDetails.property_changes
    c_text,          \* normalize_sql: the text it was applied to last
    c_normalized,    \* what the successive calls of normalize_sql returned
    c_rows,          \* QueryResult.rows of a SHOW CREATE TABLE
    c_ddl,           \* what the differ's extract_ddl_from_query_result returned
    c_exported,      \* what export's extract_ddl_from_query_result returned
    \* ---- QueryExecutor::execute_query ----
    q_pc,            \* position inside execute_query / get_query_results
    q_method,        \* execute_query or get_query_results
    q_execution_id,  \* the id start_query_execution returned, 0 before
    q_state,         \* state of the execution at the service
    q_pages,         \* the result pages the service holds for the execution
    q_token,         \* next_token: Option<String>, as [some |-> ..]
    q_rows,          \* result.rows under construction
    q_ret,           \* what the method returned
    q_log,           \* history: the requests sent to the service, in order
    q_waited,        \* history: what wait_for_completion returned
    \* ---- commands::apply ----
    a_pc,            \* position inside execute / apply_changes
    a_dry_run,       \* the dry_run argument
    a_auto_approve,  \* the auto_approve argument
    a_diff,          \* the DiffResult calculate_diff returned
    a_displayed,     \* display_diff_result has printed the plan
    a_answer,        \* the line prompt_for_confirmation read, [some |-> FALSE] before
    a_idx,           \* index of the table_diff apply_changes is at
    a_stmts,         \* statements of the current table_diff not yet submitted
    a_running,       \* executions submitted by apply that are not terminal
    a_log,           \* history: the statements submitted, in order
    a_ret            \* what execute returned

diff_vars == <<d_pc, local_tables, remote_tables, todo, table_diffs, diff_result,
               target_filter, databases, tables_by_db, all_tables, list_failed,
               fetch_failed, submitted>>

\* what get_local_tables and get_remote_tables leave to compute_table_diffs
fetch_vars == <<target_filter, databases, tables_by_db, all_tables, list_failed,
                fetch_failed, submitted>>

exec_vars == <<x_pc, method, queries, x_idx, t_pc, t_exec, t_out, permits,
              max_concurrent,
               executions, results, x_ret, overtaken>>

wait_vars == <<w_pc, timeout_seconds, elapsed, remote_state, response, w_ret,
               requests>>

filter_vars == <<f_pc, f_cli, f_config, f_targets, f_filter, f_key, f_verdict,
                 f_value, f_pattern, f_match>>

detect_vars == <<c_pc, c_remote_sql, c_local_sql, c_remote_columns, c_local_columns,
                 c_column_changes, c_property_changes, c_text, c_normalized,
                 c_rows, c_ddl, c_exported>>

query_vars == <<q_pc, q_method, q_execution_id, q_state, q_pages, q_token, q_rows,
                q_ret, q_log, q_waited>>

apply_vars == <<a_pc, a_dry_run, a_auto_approve, a_diff, a_displayed, a_answer,
                a_idx, a_stmts, a_running, a_log, a_ret>>

vars == <<diff_vars, exec_vars, wait_vars, filter_vars, detect_vars, query_vars,
          apply_vars>>

----------------------------------------------------------------------------
(* Strings *)

\* char::is_whitespace restricted to the characters of the model's alphabet
IsWhitespace(c) == c \in {" ", "\t", "\n", "\r"}

\* str::trim_end
RECURSIVE trim_end(_)
trim_end(s) ==
    IF s = <<>> THEN s
    ELSE IF IsWhitespace(s[Len(s)]) THEN trim_end(SubSeq(s, 1, Len(s) - 1))
    ELSE s

\* index of the first occurrence of character c in s, 0 when there is none
RECURSIVE find_char(_, _, _)
find_char(s, c, i) ==
    IF i > Len(s) THEN 0
    ELSE IF s[i] = c THEN i
    ELSE find_char(s, c, i + 1)

\* str::lines: split at "\n", a "\r" right before the "\n" belongs to the
\* line ending, the final line ending is optional
RECURSIVE lines(_)
lines(s) ==
    IF s = <<>> THEN <<>>
    ELSE LET i == find_char(s, "\n", 1) IN
         IF i = 0 THEN <<s>>
         ELSE LET raw  == SubSeq(s, 1, i - 1)
                  line == IF raw # <<>> /\ raw[Len(raw)] = "\r"
                          THEN SubSeq(raw, 1, Len(raw) - 1) ELSE raw
              IN <<line>> \o lines(SubSeq(s, i + 1, Len(s)))

\* [&str]::join
RECURSIVE join(_, _)
join(ls, sep) ==
    IF ls = <<>> THEN <<>>
    ELSE IF Len(ls) = 1 THEN ls[1]
    ELSE ls[1] \o sep \o join(Tail(ls), sep)

\* str::split(c): always at least one part
RECURSIVE split(_, _)
split(s, c) ==
    LET i == find_char(s, c, 1) IN
    IF i = 0 THEN <<s>>
    ELSE <<SubSeq(s, 1, i - 1)>> \o split(SubSeq(s, i + 1, Len(s)), c)

\* the trailing newlines at the end are kept
normalize_sql_untrimmed(sql) ==
    LET ls == lines(sql) IN
    join([i \in 1..Len(ls) |-> trim_end(ls[i])], <<"\n">>)

normalize_sql(sql) ==
    LET ls == lines(sql) IN
    trim_end(join([i \in 1..Len(ls) |-> trim_end(ls[i])], <<"\n">>))

\* SqlFile::qualified_name and format!("{}.{}", database_name, table_name)
qualified_name(db, table) == db \o <<".">> \o table

\* the two parts of the key exchanged
parse_table_key_swapped(key) ==
    LET parts == split(key, ".") IN
    IF Len(parts) # 2 THEN [ok |-> FALSE]
    ELSE [ok |-> TRUE, database_name |-> parts[2], table_name |-> parts[1]]

parse_table_key(key) ==
    LET parts == split(key, ".") IN
    IF Len(parts) # 2 THEN [ok |-> FALSE]
    ELSE [ok |-> TRUE, database_name |-> parts[1], table_name |-> parts[2]]

----------------------------------------------------------------------------
(* Target filter: src/target_filter.rs *)

\* characters regex::escape puts a backslash in front of, restricted to the
\* characters of the model's alphabet
RegexMeta == {"*", ".", "-", "\\"}

\* regex::escape
RECURSIVE regex_escape(_)
regex_escape(pattern) ==
    IF pattern = <<>> THEN <<>>
    ELSE (IF pattern[1] \in RegexMeta THEN <<"\\", pattern[1]>> ELSE <<pattern[1]>>)
           \o regex_escape(Tail(pattern))

\* escaped.replace(r"\*", ".*"): leftmost non-overlapping occurrences
RECURSIVE replace_star(_)
replace_star(escaped) ==
    IF escaped = <<>> THEN <<>>
    ELSE IF Len(escaped) >= 2 /\ escaped[1] = "\\" /\ escaped[2] = "*"
         THEN <<".", "*">> \o replace_star(SubSeq(escaped, 3, Len(escaped)))
         ELSE <<escaped[1]>> \o replace_star(Tail(escaped))

\* Regex::is_match of the anchored expression ^re$ for the expressions
\* replace_star produces: ".*" is any run of characters other than "\n", a
\* backslash makes the next character a literal, any other character is a
\* literal
RECURSIVE is_match(_, _)
is_match(re, value) ==
    IF re = <<>> THEN value = <<>>
    ELSE IF Len(re) >= 2 /\ re[1] = "." /\ re[2] = "*"
         THEN \E k \in 0..Len(value) :
                /\ \A j \in 1..k : value[j] # "\n"
                /\ is_match(SubSeq(re, 3, Len(re)), SubSeq(value, k + 1, Len(value)))
    ELSE IF re[1] = "\\"
         THEN /\ Len(re) >= 2
              /\ value # <<>>
              /\ value[1] = re[2]
              /\ is_match(SubSeq(re, 3, Len(re)), Tail(value))
    ELSE /\ value # <<>>
         /\ value[1] = re[1]
         /\ is_match(Tail(re), Tail(value))

\* the wildcard is taken as a literal character
matches_pattern_literal(value, pattern) == value = pattern

matches_pattern(value, pattern) ==
    IF pattern = <<"*">> THEN TRUE
    ELSE is_match(replace_star(regex_escape(pattern)), value)

\* format!("{}.*", db)
database_pattern(db) == db \o <<".", "*">>

\* the configured databases win over the command line
resolve_targets_config_first(cli_targets, config_databases) ==
    IF config_databases.some
    THEN [i \in 1..Len(config_databases.value) |->
            database_pattern(config_databases.value[i])]
    ELSE cli_targets

\* config_databases is an Option<&Vec<String>>: [some |-> FALSE] is None
resolve_targets(cli_targets, config_databases) ==
    IF cli_targets # <<>> THEN cli_targets
    ELSE IF config_databases.some
         THEN [i \in 1..Len(config_databases.value) |->
                 database_pattern(config_databases.value[i])]
         ELSE <<>>

\* targets.iter().filter_map(...): the patterns with exactly two parts, in order
RECURSIVE filter_map_targets(_)
filter_map_targets(targets) ==
    IF targets = <<>> THEN <<>>
    ELSE LET parts == split(targets[1], ".") IN
         (IF Len(parts) = 2 THEN << <<parts[1], parts[2]>> >> ELSE <<>>)
           \o filter_map_targets(Tail(targets))

\* only the first pattern is kept
parse_target_filter_first_only(targets) ==
    [all |-> targets = <<>>,
     patterns |-> LET ps == filter_map_targets(targets) IN
                  IF ps = <<>> THEN ps ELSE <<ps[1]>>]

\* the empty list includes no table
parse_target_filter_no_default(targets) ==
    [all |-> FALSE, patterns |-> filter_map_targets(targets)]

\* a list without a valid pattern includes every table
parse_target_filter_lenient(targets) ==
    [all |-> filter_map_targets(targets) = <<>>,
     patterns |-> filter_map_targets(targets)]

\* the closure parse_target_filter returns: `all` for the closure |_, _| true,
\* else the captured patterns
parse_target_filter(targets) ==
    [all |-> targets = <<>>, patterns |-> filter_map_targets(targets)]

\* the call filter(database, table) of a closure of parse_target_filter
filter_call(filter, database, table) ==
    \/ filter.all
    \/ \E i \in 1..Len(filter.patterns) :
         /\ matches_pattern(database, filter.patterns[i][1])
         /\ matches_pattern(table, filter.patterns[i][2])

\* longest --target list
MaxTargets == 2

\* longest database or table name, longest segment pattern
MaxSegLen == 3

\* --target values: no segment, one, three, and two-segment patterns
TargetPatterns ==
    {<<>>, <<"c">>, <<"s", ".", "c", ".", "o">>,
     <<"s", ".", "c">>, <<"*", ".", "c">>, <<"s", ".", "*">>, <<"*", ".", "*">>,
     <<"S", ".", "C">>}

TargetLists == UNION {[1..n -> TargetPatterns] : n \in 0..MaxTargets}

\* config.databases: None or Some(list)
ConfigDatabases ==
    {[some |-> FALSE]}
      \cup {[some |-> TRUE, value |-> v] :
              v \in {<<>>, << <<"s">> >>, << <<"s">>, <<"m">> >>, << <<"m">>, <<"s">> >>}}

\* the (database, table) pairs the closure is called with
FilterKeys == {<<"s">>, <<"m">>, <<"S">>} \X {<<"c">>, <<"o">>, <<"C">>}

\* names and segment patterns given to matches_pattern
SegmentValues == UNION {[1..n -> {"c", "C", "-"}] : n \in 0..MaxSegLen}

SegmentPatterns == UNION {[1..n -> {"c", "C", "-", "*"}] : n \in 0..MaxSegLen}

InitFilter ==
    /\ f_pc = "start"
    /\ f_cli = <<>>
    /\ f_config = [some |-> FALSE]
    /\ f_targets = <<>>
    /\ f_filter = [all |-> TRUE, patterns |-> <<>>]
    /\ f_key = <<>>
    /\ f_verdict = FALSE
    /\ f_value = <<>>
    /\ f_pattern = <<>>
    /\ f_match = FALSE

\* apply.rs / export.rs: resolve_targets(targets, config.databases.as_ref())
Resolve ==
    /\ f_pc = "start"
    /\ \E cli \in TargetLists, config \in ConfigDatabases :
         /\ f_cli' = cli
         /\ f_config' = config
         /\ f_targets' = resolve_targets(cli, config)
    /\ f_pc' = "resolved"
    /\ UNCHANGED <<f_filter, f_key, f_verdict, f_value, f_pattern, f_match,
                   diff_vars, exec_vars, wait_vars, detect_vars, query_vars, apply_vars>>

\* parse_target_filter(&effective_targets)
Compile ==
    /\ f_pc = "resolved"
    /\ f_filter' = parse_target_filter(f_targets)
    /\ f_pc' = "compiled"
    /\ UNCHANGED <<f_cli, f_config, f_targets, f_key, f_verdict, f_value,
                   f_pattern, f_match, diff_vars, exec_vars, wait_vars, detect_vars, query_vars, apply_vars>>

\* target_filter(db, table)
Apply ==
    /\ f_pc = "compiled"
    /\ \E k \in FilterKeys :
         /\ f_key' = k
         /\ f_verdict' = filter_call(f_filter, k[1], k[2])
    /\ f_pc' = "applied"
    /\ UNCHANGED <<f_cli, f_config, f_targets, f_filter, f_value, f_pattern,
                   f_match, diff_vars, exec_vars, wait_vars, detect_vars, query_vars, apply_vars>>

\* matches_pattern(value, pattern)
MatchSegment ==
    /\ f_pc = "start"
    /\ \E v \in SegmentValues, pat \in SegmentPatterns :
         /\ f_value' = v
         /\ f_pattern' = pat
         /\ f_match' = matches_pattern(v, pat)
    /\ f_pc' = "matched"
    /\ UNCHANGED <<f_cli, f_config, f_targets, f_filter, f_key, f_verdict,
                   diff_vars, exec_vars, wait_vars, detect_vars, query_vars, apply_vars>>

NextFilter ==
    \/ Resolve
    \/ Compile
    \/ Apply
    \/ MatchSegment

----------------------------------------------------------------------------
(* Inputs of a diff run *)

\* database directories / Glue databases
DatabaseNames == {<<"s">>}

\* table names that pass FileUtils::validate_identifier
LocalTableNames == {<<"c">>, <<"o">>}

\* Glue table names: any string, a dot included
RemoteTableNames == {<<"c">>, <<"o">>, <<"c", ".", "o">>}

\* file contents and SHOW CREATE TABLE texts
DdlTexts == {<<"a">>, <<"a", " ">>, <<"a", "\r", "\n">>, <<"b">>}

Operations == {"Create", "Update", "Delete", "NoChange"}

\* databases of the Glue catalog
GlueDatabases == {<<"s">>, <<"m">>}

\* table names a database of the catalog can hold
GlueTableNames(db) == IF db = <<"s">> THEN RemoteTableNames ELSE {<<"c">>}

\* texts SHOW CREATE TABLE can return for a table of database db
GlueDdlTexts(db) == IF db = <<"s">> THEN DdlTexts ELSE {<<"a">>}

\* --target lists of a diff run
DiffTargets == {<<>>, << <<"*", ".", "c">> >>, << <<"s", ".", "o">> >>}

----------------------------------------------------------------------------
(* QueryExecutor::wait_for_completion *)

\* tokio::time::sleep(Duration::from_secs(2))
PollIntervalSecs == 2

\* largest configured query_timeout_seconds of the model
MaxTimeout == 3

\* longest time one get_query_execution request takes, in seconds
MaxLatency == 1

\* QueryExecutionState as the service reports it; "UNKNOWN" is a state this
\* version of the SDK has no variant for
RemoteStates == {"QUEUED", "RUNNING", "SUCCEEDED", "FAILED", "CANCELLED", "UNKNOWN"}

TerminalStates == {"SUCCEEDED", "FAILED", "CANCELLED"}

\* state_change_reason of a status, "NONE" when the service reports none
Reasons == {"NONE", "r"}

\* status payloads of get_query_execution; state "NONE": no query_execution,
\* no status or no state in the payload
Responses == [state : RemoteStates \cup {"NONE"}, reason : Reasons]

Ok == [status |-> "ok"]

Err(error, detail) == [status |-> "err", error |-> error, detail |-> detail]

Sleep == [status |-> "sleep"]

\* the arm for an unrecognized state returns an error
match_state_unknown_fails(resp) ==
    CASE resp.state = "SUCCEEDED" -> Ok
      [] resp.state = "FAILED" ->
           Err("Query execution failed",
               IF resp.reason = "NONE" THEN "Unknown error" ELSE resp.reason)
      [] resp.state = "CANCELLED" -> Err("Query execution was cancelled", "")
      [] resp.state \in {"QUEUED", "RUNNING"} -> Sleep
      [] resp.state = "NONE" -> Err("Query execution state not available", "")
      [] OTHER -> Err("Query execution failed", "Unknown error")

\* the arm for Cancelled keeps polling
match_state_cancelled_polls(resp) ==
    CASE resp.state = "SUCCEEDED" -> Ok
      [] resp.state = "FAILED" ->
           Err("Query execution failed",
               IF resp.reason = "NONE" THEN "Unknown error" ELSE resp.reason)
      [] resp.state = "CANCELLED" -> Sleep
      [] resp.state \in {"QUEUED", "RUNNING"} -> Sleep
      [] resp.state = "NONE" -> Err("Query execution state not available", "")
      [] OTHER -> Sleep

\* `match state { ... }` of the polling loop: what one observed status makes
\* the loop do
match_state(resp) ==
    CASE resp.state = "SUCCEEDED" -> Ok
      [] resp.state = "FAILED" ->
           Err("Query execution failed",
               IF resp.reason = "NONE" THEN "Unknown error" ELSE resp.reason)
      [] resp.state = "CANCELLED" -> Err("Query execution was cancelled", "")
      [] resp.state \in {"QUEUED", "RUNNING"} -> Sleep
      [] resp.state = "NONE" -> Err("Query execution state not available", "")
      [] OTHER -> Sleep

\* start_time.elapsed() > timeout_duration
TimedOut(e, t) == e > t

\* the timeout branch asks the service to stop the execution
TimeoutRequestsStop == {"StopQueryExecution"}

\* what the timeout branch sends to the service before it returns: nothing
TimeoutRequests == {}

\* the state of an execution after the service has received reqs
Served(state, reqs) ==
    IF "StopQueryExecution" \in reqs /\ state \notin TerminalStates
    THEN "CANCELLED" ELSE state

InitWait ==
    /\ w_pc = "idle"
    /\ timeout_seconds = 0
    /\ elapsed = 0
    /\ remote_state = "QUEUED"
    /\ response = [state |-> "NONE", reason |-> "NONE", polls |-> 0]
    /\ w_ret = [status |-> "none"]
    /\ requests = {}

\* wait_for_completion(execution_id) is called; Config::validate rejects a
\* timeout of 0
WaitCall ==
    /\ w_pc = "idle"
    /\ \E t \in 1..MaxTimeout : timeout_seconds' = t
    /\ elapsed' = 0
    /\ w_pc' = "check"
    /\ UNCHANGED <<remote_state, response, w_ret, requests, diff_vars, exec_vars, filter_vars, detect_vars, query_vars, apply_vars>>

\* top of the loop: the timeout check
CheckTimeout ==
    /\ w_pc = "check"
    /\ IF TimedOut(elapsed, timeout_seconds)
       THEN /\ w_pc' = "returned"
            /\ w_ret' = Err("Query execution timed out", timeout_seconds)
            /\ requests' = requests \cup TimeoutRequests
            /\ remote_state' = Served(remote_state, TimeoutRequests)
       ELSE /\ w_pc' = "request"
            /\ UNCHANGED <<w_ret, requests, remote_state>>
    /\ UNCHANGED <<timeout_seconds, elapsed, response, diff_vars, exec_vars, filter_vars, detect_vars, query_vars, apply_vars>>

\* get_query_execution().send().await fails: `?` returns the error
PollFails ==
    /\ w_pc = "request"
    /\ w_pc' = "returned"
    /\ w_ret' = Err("Failed to get query execution status", "")
    /\ requests' = requests \cup {"GetQueryExecution"}
    /\ UNCHANGED <<timeout_seconds, elapsed, remote_state, response,
                   diff_vars, exec_vars, filter_vars, detect_vars, query_vars, apply_vars>>

\* get_query_execution().send().await answers, and the match on the state
PollAnswers ==
    /\ w_pc = "request"
    /\ \E latency \in 0..MaxLatency, payload \in {"full", "empty"}, reason \in Reasons :
         LET resp == [state  |-> IF payload = "empty" THEN "NONE" ELSE remote_state,
                      reason |-> IF payload = "full" /\ remote_state = "FAILED"
                                 THEN reason ELSE "NONE"]
             todo_next == match_state(resp)
         IN /\ response' = [state |-> resp.state, reason |-> resp.reason,
                            polls |-> response.polls + 1]
            /\ elapsed' = elapsed + latency
            /\ IF todo_next = Sleep
               THEN /\ w_pc' = "sleep"
                    /\ UNCHANGED w_ret
               ELSE /\ w_pc' = "returned"
                    /\ w_ret' = todo_next
    /\ requests' = requests \cup {"GetQueryExecution"}
    /\ UNCHANGED <<timeout_seconds, remote_state, diff_vars, exec_vars, filter_vars, detect_vars, query_vars, apply_vars>>

\* tokio::time::sleep(2 s) is over
SleepOver ==
    /\ w_pc = "sleep"
    /\ elapsed' = elapsed + PollIntervalSecs
    /\ w_pc' = "check"
    /\ UNCHANGED <<timeout_seconds, remote_state, response, w_ret, requests,
                   diff_vars, exec_vars, filter_vars, detect_vars, query_vars, apply_vars>>

\* the service moves the execution on
RemoteProgress ==
    /\ w_pc # "idle"
    /\ remote_state \notin TerminalStates
    /\ \E s \in RemoteStates \ {"QUEUED"} :
         /\ remote_state = "RUNNING" => s # "QUEUED"
         /\ s # remote_state
         /\ remote_state' = s
    /\ UNCHANGED <<w_pc, timeout_seconds, elapsed, response, w_ret, requests,
                   diff_vars, exec_vars, filter_vars, detect_vars, query_vars, apply_vars>>

NextWait ==
    \/ WaitCall
    \/ CheckTimeout
    \/ PollFails
    \/ PollAnswers
    \/ SleepOver
    \/ RemoteProgress

----------------------------------------------------------------------------
(* ParallelQueryExecutor *)

\* longest query list of the model
MaxQueries == 3

\* max_concurrent of ParallelQueryExecutor::new
MaxConcurrent == 2

Tasks == 1..Len(queries)

NotSpawned == [status |-> "none"]

\* positions of a task at which it holds a permit
InFlight == {"submit", "wait", "fetch"}

\* QueryResult::new(execution_id, status)
QueryResult(execution_id, status) ==
    [status |-> "ok", execution_id |-> execution_id, query_status |-> status]

\* a permit is handed out whatever the count
CanAcquireAlways(available) == TRUE

\* Semaphore::acquire completes only while a permit is available
CanAcquire(available) == available > 0

\* the new element is put in front
PushFront(vec, x) == <<x>> \o vec

\* Vec::push
Push(vec, x) == Append(vec, x)

\* the unfinished tasks are aborted
AbortUnfinished(pcs) ==
    [i \in DOMAIN pcs |-> IF pcs[i] = "done" THEN "done" ELSE "aborted"]

\* `?` leaves the loop and drops the JoinHandles not yet awaited: dropping a
\* JoinHandle detaches its task, which keeps running
DropJoinHandles(pcs) == pcs

InitExecutor ==
    /\ x_pc = "idle"
    /\ method = "none"
    /\ queries = <<>>
    /\ x_idx = 0
    /\ t_pc = <<>>
    /\ t_exec = <<>>
    /\ t_out = <<>>
    /\ permits = MaxConcurrent
    /\ max_concurrent = MaxConcurrent
    /\ executions = <<>>
    /\ results = <<>>
    /\ x_ret = [status |-> "none"]
    /\ overtaken = FALSE

\* execute_queries(queries), start_queries(queries) or
\* wait_for_all(execution_ids) is called on a new executor; the ids given to
\* wait_for_all are those of executions the service already has
Call ==
    /\ x_pc = "idle"
    /\ \E m \in {"execute_queries", "start_queries", "wait_for_all"},
          n \in 0..MaxQueries :
         /\ method' = m
         /\ queries' = [i \in 1..n |-> i]
         /\ t_pc' = [i \in 1..n |-> "unspawned"]
         /\ t_exec' = [i \in 1..n |-> IF m = "wait_for_all" THEN i ELSE 0]
         /\ t_out' = [i \in 1..n |-> NotSpawned]
         /\ executions' = IF m = "wait_for_all" THEN [i \in 1..n |-> i]
                          ELSE executions
         /\ x_pc' = IF n = 0 THEN "collect" ELSE "spawn"
    /\ x_idx' = 1
    /\ UNCHANGED <<permits, results, x_ret, overtaken, max_concurrent, diff_vars, wait_vars, filter_vars, detect_vars, query_vars, apply_vars>>

\* the first position of a spawned task: the tasks of execute_queries and
\* start_queries begin with semaphore.acquire(), those of wait_for_all with
\* wait_for_completion
FirstPosition(m) == IF m = "wait_for_all" THEN "poll" ELSE "acquire"

\* queries.into_iter().map(|query| tokio::spawn(...)).collect()
Spawn ==
    /\ x_pc = "spawn"
    /\ t_pc' = [t_pc EXCEPT ![x_idx] = FirstPosition(method)]
    /\ IF x_idx = Len(queries)
       THEN x_pc' = "collect" /\ x_idx' = 1
       ELSE x_pc' = "spawn" /\ x_idx' = x_idx + 1
    /\ UNCHANGED <<method, queries, t_exec, t_out, permits, executions, results,
                   x_ret, overtaken, max_concurrent, diff_vars, wait_vars, filter_vars, detect_vars, query_vars, apply_vars>>

\* let _permit = semaphore.acquire().await.unwrap();
TaskAcquire(i) ==
    /\ t_pc[i] = "acquire"
    /\ CanAcquire(permits)
    /\ permits' = permits - 1
    /\ t_pc' = [t_pc EXCEPT ![i] = "submit"]
    /\ UNCHANGED <<x_pc, method, queries, x_idx, t_exec, t_out, executions,
                   results, x_ret, overtaken, max_concurrent, diff_vars, wait_vars, filter_vars, detect_vars, query_vars, apply_vars>>

\* some task before i has not finished yet
EarlierUnfinished(i) == \E j \in 1..(i - 1) : t_pc[j] # "done"

\* the permit stays with the task that has ended
FinishKeepsPermit(i, out) ==
    /\ t_pc' = [t_pc EXCEPT ![i] = "done"]
    /\ t_out' = [t_out EXCEPT ![i] = out]
    /\ permits' = permits
    /\ overtaken' = (overtaken \/ EarlierUnfinished(i))

\* the async block is over: its value goes to the JoinHandle and _permit is dropped
Finish(i, out) ==
    /\ t_pc' = [t_pc EXCEPT ![i] = "done"]
    /\ t_out' = [t_out EXCEPT ![i] = out]
    /\ permits' = permits + 1
    /\ overtaken' = (overtaken \/ EarlierUnfinished(i))

\* start_query_execution(&query): the request is rejected, answered without an
\* execution id, or answered with the id of a new execution
TaskSubmit(i) ==
    /\ t_pc[i] = "submit"
    /\ \E answer \in {"rejected", "no_id", "id"} :
         CASE answer = "rejected" ->
                /\ Finish(i, Err("Failed to start query execution", ""))
                /\ UNCHANGED <<t_exec, executions>>
           [] answer = "no_id" ->
                /\ Finish(i, Err("No query execution ID returned", ""))
                /\ UNCHANGED <<t_exec, executions>>
           [] answer = "id" ->
                /\ executions' = Append(executions, queries[i])
                /\ t_exec' = [t_exec EXCEPT ![i] = Len(executions) + 1]
                /\ IF method = "start_queries"
                   THEN Finish(i, [status |-> "ok",
                                   execution_id |-> Len(executions) + 1])
                   ELSE /\ t_pc' = [t_pc EXCEPT ![i] = "wait"]
                        /\ UNCHANGED <<t_out, permits, overtaken>>
    /\ UNCHANGED <<x_pc, method, queries, x_idx, results, x_ret,
                   max_concurrent, diff_vars, wait_vars, filter_vars, detect_vars, query_vars, apply_vars>>

\* what one turn of wait_for_completion's loop can come to: the timeout
\* check fires, the status request fails, or the status is matched
WaitTurns ==
    {Err("Query execution timed out", ""),
     Err("Failed to get query execution status", "")}
      \cup {match_state(resp) : resp \in Responses}

\* wait_for_completion(&execution_id): one turn of its loop, with the clock
\* and the service's answer as the environment gives them
TaskWait(i) ==
    /\ t_pc[i] = "wait"
    /\ \E turn \in WaitTurns :
         CASE turn = Sleep ->
                UNCHANGED <<t_pc, t_out, permits, overtaken>>
           [] turn = Ok ->
                /\ t_pc' = [t_pc EXCEPT ![i] = "fetch"]
                /\ UNCHANGED <<t_out, permits, overtaken>>
           [] OTHER -> Finish(i, turn)
    /\ UNCHANGED <<x_pc, method, queries, x_idx, t_exec, executions, results,
                   x_ret, max_concurrent, diff_vars, wait_vars, filter_vars, detect_vars, query_vars, apply_vars>>

\* get_query_results(&execution_id)
TaskFetch(i) ==
    /\ t_pc[i] = "fetch"
    /\ \E fetched \in BOOLEAN :
         IF fetched
         THEN Finish(i, QueryResult(t_exec[i], "SUCCEEDED"))
         ELSE Finish(i, Err("Failed to get query results", ""))
    /\ UNCHANGED <<x_pc, method, queries, x_idx, t_exec, executions, results,
                   x_ret, max_concurrent, diff_vars, wait_vars, filter_vars, detect_vars, query_vars, apply_vars>>

\* a task of wait_for_all: wait_for_completion(&execution_id), one turn of
\* its loop; the task holds no permit
TaskPoll(i) ==
    /\ t_pc[i] = "poll"
    /\ \E turn \in WaitTurns :
         IF turn = Sleep
         THEN UNCHANGED <<t_pc, t_out, overtaken>>
         ELSE /\ t_pc' = [t_pc EXCEPT ![i] = "done"]
              /\ t_out' = [t_out EXCEPT ![i] = turn]
              /\ overtaken' = (overtaken \/ EarlierUnfinished(i))
    /\ UNCHANGED <<x_pc, method, queries, x_idx, t_exec, permits, executions,
                   results, x_ret, max_concurrent, diff_vars, wait_vars, filter_vars, detect_vars, query_vars, apply_vars>>

\* task.await of the collecting loop yields Ok(value): results.push(value);
\* wait_for_all keeps no value
JoinOk ==
    /\ x_pc = "collect"
    /\ x_idx <= Len(queries)
    /\ t_pc[x_idx] = "done"
    /\ t_out[x_idx].status = "ok"
    /\ results' = IF method = "wait_for_all" THEN results
                   ELSE Push(results, t_out[x_idx])
    /\ x_idx' = x_idx + 1
    /\ UNCHANGED <<x_pc, method, queries, t_pc, t_exec, t_out, permits,
                   executions, x_ret, overtaken, max_concurrent, diff_vars, wait_vars, filter_vars, detect_vars, query_vars, apply_vars>>

\* task.await yields Err(e): `?` returns it
JoinErr ==
    /\ x_pc = "collect"
    /\ x_idx <= Len(queries)
    /\ t_pc[x_idx] = "done"
    /\ t_out[x_idx].status = "err"
    /\ x_ret' = t_out[x_idx]
    /\ x_pc' = "returned"
    /\ t_pc' = DropJoinHandles(t_pc)
    /\ UNCHANGED <<method, queries, x_idx, t_exec, t_out, permits, executions,
                   results, overtaken, max_concurrent, diff_vars, wait_vars, filter_vars, detect_vars, query_vars, apply_vars>>

\* Ok(results), Ok(execution_ids) or Ok(())
ReturnOk ==
    /\ x_pc = "collect"
    /\ x_idx > Len(queries)
    /\ x_ret' = IF method = "wait_for_all" THEN Ok
                 ELSE [status |-> "ok", values |-> results]
    /\ x_pc' = "returned"
    /\ UNCHANGED <<method, queries, x_idx, t_pc, t_exec, t_out, permits,
                   executions, results, overtaken, max_concurrent, diff_vars, wait_vars, filter_vars, detect_vars, query_vars, apply_vars>>

\* most queries of a batch whose progress is followed to the end
MaxBatch == 2

\* ParallelQueryExecutor::new(executor, max_concurrent) and then
\* execute_queries(queries) on it
CallExecuteQueries ==
    /\ x_pc = "idle"
    /\ \E n \in 0..MaxBatch, capacity \in 1..MaxConcurrent :
         /\ max_concurrent' = capacity
         /\ permits' = capacity
         /\ queries' = [i \in 1..n |-> i]
         /\ t_pc' = [i \in 1..n |-> "unspawned"]
         /\ t_exec' = [i \in 1..n |-> 0]
         /\ t_out' = [i \in 1..n |-> NotSpawned]
         /\ x_pc' = IF n = 0 THEN "collect" ELSE "spawn"
    /\ method' = "execute_queries"
    /\ x_idx' = 1
    /\ UNCHANGED <<executions, results, x_ret, overtaken, diff_vars, wait_vars,
                   filter_vars, detect_vars, query_vars, apply_vars>>

\* a step of task i of execute_queries
TaskStep(i) ==
    /\ i \in Tasks
    /\ \/ TaskAcquire(i)
       \/ TaskSubmit(i)
       \/ TaskWait(i)
       \/ TaskFetch(i)

NextExecuteQueries ==
    \/ CallExecuteQueries
    \/ Spawn
    \/ \E i \in Tasks : TaskAcquire(i)
    \/ \E i \in Tasks : TaskSubmit(i)
    \/ \E i \in Tasks : TaskWait(i)
    \/ \E i \in Tasks : TaskFetch(i)
    \/ JoinOk
    \/ JoinErr
    \/ ReturnOk

NextExec ==
    \/ Call
    \/ Spawn
    \/ \E i \in Tasks : TaskAcquire(i)
    \/ \E i \in Tasks : TaskSubmit(i)
    \/ \E i \in Tasks : TaskWait(i)
    \/ \E i \in Tasks : TaskFetch(i)
    \/ \E i \in Tasks : TaskPoll(i)
    \/ JoinOk
    \/ JoinErr
    \/ ReturnOk

----------------------------------------------------------------------------
(* Differ::calculate_diff *)

TableDiff(db, table, op) ==
    [database_name |-> db, table_name |-> table, operation |-> op]

\* table_diffs.iter().filter(|d| d.operation == op).count()
CountOperation(diffs, op) ==
    Cardinality({i \in DOMAIN diffs : diffs[i].operation = op})

\* to_change counts the entries to delete
from_table_diffs_miscounted(diffs) ==
    [to_add     |-> CountOperation(diffs, "Create"),
     to_change  |-> CountOperation(diffs, "Delete"),
     to_destroy |-> CountOperation(diffs, "Delete")]

from_table_diffs(diffs) ==
    [to_add     |-> CountOperation(diffs, "Create"),
     to_change  |-> CountOperation(diffs, "Update"),
     to_destroy |-> CountOperation(diffs, "Delete")]

\* the comparison of compute_table_diffs' third loop
NeedsUpdate(remote_ddl, local_content) ==
    normalize_sql(remote_ddl) # normalize_sql(local_content)

\* format!("SHOW CREATE TABLE {}.{}", db, table)
show_create_table(db, table) ==
    <<"SHOW CREATE TABLE ">> \o qualified_name(db, table)

\* the errors execute_query returns for a query that is rejected, fails, is
\* cancelled or times out
FetchErrors ==
    {"Failed to start query execution", "Query execution failed",
     "Query execution was cancelled", "Query execution timed out"}

\* rows of a succeeded SHOW CREATE TABLE: the header row alone, or the header
\* row and one row whose first column is the DDL
FetchedRows(db) ==
    {<< <<"createtab_stmt">> >>}
      \cup {<< <<"createtab_stmt">>, <<ddl>> >> : ddl \in GlueDdlTexts(db)}

\* Option<String>: the first column of the second row
extract_ddl_from_query_result(result) ==
    IF Len(result.rows) >= 2 /\ result.rows[2] # <<>>
    THEN [some |-> TRUE, value |-> result.rows[2][1]]
    ELSE [some |-> FALSE]

\* ParallelQueryExecutor::execute_queries as its caller sees it: the first
\* error in input order, else every result in input order
execute_queries(outcomes) ==
    IF \E i \in DOMAIN outcomes : outcomes[i].status = "err"
    THEN outcomes[CHOOSE i \in DOMAIN outcomes :
                    /\ outcomes[i].status = "err"
                    /\ \A j \in 1..(i - 1) : outcomes[j].status # "err"]
    ELSE [status |-> "ok", values |-> outcomes]

\* every table is taken, whatever the filter says
passes_filter_always(filter, database_name, table_name) == TRUE

\* `if let Some(filter) = target_filter { if !filter(..) { continue; } }`
passes_filter(filter, database_name, table_name) ==
    filter_call(filter, database_name, table_name)

\* the orders in which a HashMap can hand out the elements of set
Orders(set) ==
    {seq \in [1..Cardinality(set) -> set] :
       \A i, j \in 1..Cardinality(set) : i # j => seq[i] # seq[j]}

\* how often each element occurs in seq
Counted(seq) ==
    [q \in {seq[i] : i \in DOMAIN seq} |->
       Cardinality({i \in DOMAIN seq : seq[i] = q})]

InitDiffer ==
    /\ d_pc = "start"
    /\ local_tables = <<>>
    /\ remote_tables = <<>>
    /\ todo = {}
    /\ table_diffs = <<>>
    /\ diff_result = [status |-> "none"]
    /\ target_filter = parse_target_filter(<<>>)
    /\ databases = {}
    /\ tables_by_db = <<>>
    /\ all_tables = <<>>
    /\ list_failed = {}
    /\ fetch_failed = {}
    /\ submitted = <<>>

\* get_local_tables: one SqlFile per <database>/<table>.sql, keyed by its
\* qualified name, the files the target filter rejects removed
GetLocalTables ==
    /\ d_pc = "start"
    /\ \E targets \in DiffTargets :
       \E files \in SUBSET (DatabaseNames \X LocalTableNames) :
       \E content \in [files -> DdlTexts] :
          LET filter == parse_target_filter(targets)
              retained == {f \in files : filter_call(filter, f[1], f[2])}
          IN /\ target_filter' = filter
             /\ local_tables' =
                  [k \in {qualified_name(f[1], f[2]) : f \in retained} |->
                     LET f == CHOOSE g \in retained : qualified_name(g[1], g[2]) = k
                     IN [database_name |-> f[1], table_name |-> f[2],
                         content |-> content[f]]]
    /\ d_pc' = "remote"
    /\ UNCHANGED <<remote_tables, todo, table_diffs, diff_result, databases,
                   tables_by_db, all_tables, list_failed, fetch_failed, submitted,
                   exec_vars, wait_vars, filter_vars, detect_vars, query_vars, apply_vars>>

\* get_remote_tables: glue_client.get_databases().await.context(..)?
ListDatabases ==
    /\ d_pc = "remote"
    /\ \/ /\ d_pc' = "done"
          /\ diff_result' = Err("Failed to get databases from Glue", "")
          /\ UNCHANGED databases
       \/ /\ \E dbs \in SUBSET GlueDatabases : databases' = dbs
          /\ d_pc' = "tables"
          /\ UNCHANGED diff_result
    /\ UNCHANGED <<local_tables, remote_tables, todo, table_diffs, target_filter,
                   tables_by_db, all_tables, list_failed, fetch_failed, submitted,
                   exec_vars, wait_vars, filter_vars, detect_vars, query_vars, apply_vars>>

\* get_remote_tables: get_tables_parallel(databases), where a database whose
\* listing fails is entered with no tables, then the loop that collects the
\* tables passing the filter; `return Ok(remote_tables)` when there is none
ListTables ==
    /\ d_pc = "tables"
    /\ \E failed \in SUBSET databases :
       \E listed \in SUBSET {t \in databases \X RemoteTableNames :
                               t[1] \notin failed /\ t[2] \in GlueTableNames(t[1])} :
          LET by_db == [db \in databases |-> {t[2] : t \in {u \in listed : u[1] = db}}]
              passing == {t \in listed : passes_filter(target_filter, t[1], t[2])}
          IN /\ list_failed' = failed
             /\ tables_by_db' = by_db
             /\ \E order \in Orders(passing) : all_tables' = order
             /\ IF passing = {}
                THEN /\ d_pc' = "create"
                     /\ todo' = DOMAIN local_tables
                ELSE /\ d_pc' = "fetch"
                     /\ UNCHANGED todo
    /\ UNCHANGED <<local_tables, remote_tables, table_diffs, diff_result,
                   target_filter, databases, fetch_failed, submitted,
                   exec_vars, wait_vars, filter_vars, detect_vars, query_vars, apply_vars>>

\* get_remote_tables: one SHOW CREATE TABLE per collected table through
\* execute_queries(queries).await?, then the DDL of every result that has one
FetchDdl ==
    /\ d_pc = "fetch"
    /\ LET n == Len(all_tables)
           sent == [i \in 1..n |-> show_create_table(all_tables[i][1], all_tables[i][2])]
           Fetch(outcomes) ==
             LET fetched == execute_queries(outcomes) IN
             IF fetched.status = "err"
             THEN /\ d_pc' = "done"
                  /\ diff_result' = fetched
                  /\ UNCHANGED <<remote_tables, todo>>
             ELSE LET ddl == [i \in 1..n |->
                                extract_ddl_from_query_result(fetched.values[i])]
                      found == {i \in 1..n : ddl[i].some}
                      key(i) == qualified_name(all_tables[i][1], all_tables[i][2])
                  IN /\ remote_tables' =
                          [k \in {key(i) : i \in found} |->
                             ddl[CHOOSE i \in found : key(i) = k].value]
                     /\ d_pc' = "create"
                     /\ todo' = DOMAIN local_tables
                     /\ UNCHANGED diff_result
       IN /\ submitted' = Counted(sent)
          /\ \/ \E failing \in (SUBSET (1..n)) \ {{}}, error \in FetchErrors :
                  /\ fetch_failed' = {all_tables[i] : i \in failing}
                  /\ Fetch([i \in 1..n |->
                              IF i \in failing THEN Err(error, "")
                              ELSE [status |-> "ok", rows |-> << <<"createtab_stmt">> >>]])
             \/ \E rows \in [1..n -> FetchedRows(<<"s">>)] :
                  /\ \A i \in 1..n : rows[i] \in FetchedRows(all_tables[i][1])
                  /\ fetch_failed' = {}
                  /\ Fetch([i \in 1..n |-> [status |-> "ok", rows |-> rows[i]]])
    /\ all_tables' = <<>>
    /\ UNCHANGED <<local_tables, table_diffs, target_filter, databases,
                   tables_by_db, list_failed, exec_vars, wait_vars, filter_vars, detect_vars, query_vars, apply_vars>>

\* first loop of compute_table_diffs: in local, not in remote
CreateLoop ==
    /\ d_pc = "create"
    /\ \E table_key \in todo :
         /\ todo' = todo \ {table_key}
         /\ table_diffs' =
              IF table_key \notin DOMAIN remote_tables
              THEN Append(table_diffs,
                          TableDiff(local_tables[table_key].database_name,
                                    local_tables[table_key].table_name, "Create"))
              ELSE table_diffs
    /\ UNCHANGED <<d_pc, local_tables, remote_tables, diff_result, fetch_vars, exec_vars, wait_vars, filter_vars, detect_vars, query_vars, apply_vars>>

CreateLoopEnd ==
    /\ d_pc = "create"
    /\ todo = {}
    /\ d_pc' = "delete"
    /\ todo' = DOMAIN remote_tables
    /\ UNCHANGED <<local_tables, remote_tables, table_diffs, diff_result, fetch_vars, exec_vars, wait_vars, filter_vars, detect_vars, query_vars, apply_vars>>

\* second loop: in remote, not in local; parse_table_key(table_key)? may fail
DeleteLoop ==
    /\ d_pc = "delete"
    /\ \E table_key \in todo :
         IF table_key \in DOMAIN local_tables
         THEN /\ todo' = todo \ {table_key}
              /\ UNCHANGED <<d_pc, table_diffs, diff_result>>
         ELSE LET parsed == parse_table_key(table_key) IN
              IF parsed.ok
              THEN /\ todo' = todo \ {table_key}
                   /\ table_diffs' =
                        Append(table_diffs,
                               TableDiff(parsed.database_name,
                                         parsed.table_name, "Delete"))
                   /\ UNCHANGED <<d_pc, diff_result>>
              ELSE /\ d_pc' = "done"
                   /\ diff_result' = [status |-> "err"]
                   /\ UNCHANGED <<todo, table_diffs>>
    /\ UNCHANGED <<local_tables, remote_tables, fetch_vars, exec_vars, wait_vars, filter_vars, detect_vars, query_vars, apply_vars>>

DeleteLoopEnd ==
    /\ d_pc = "delete"
    /\ todo = {}
    /\ d_pc' = "update"
    /\ todo' = DOMAIN local_tables
    /\ UNCHANGED <<local_tables, remote_tables, table_diffs, diff_result, fetch_vars, exec_vars, wait_vars, filter_vars, detect_vars, query_vars, apply_vars>>

\* third loop: in both, compared after normalization
UpdateLoop ==
    /\ d_pc = "update"
    /\ \E table_key \in todo :
         /\ todo' = todo \ {table_key}
         /\ table_diffs' =
              IF /\ table_key \in DOMAIN remote_tables
                 /\ NeedsUpdate(remote_tables[table_key],
                                local_tables[table_key].content)
              THEN Append(table_diffs,
                          TableDiff(local_tables[table_key].database_name,
                                    local_tables[table_key].table_name, "Update"))
              ELSE table_diffs
    /\ UNCHANGED <<d_pc, local_tables, remote_tables, diff_result, fetch_vars, exec_vars, wait_vars, filter_vars, detect_vars, query_vars, apply_vars>>

\* calculate_diff, after compute_table_diffs returned Ok
BuildResult ==
    /\ d_pc = "update"
    /\ todo = {}
    /\ LET summary == from_table_diffs(table_diffs) IN
       diff_result' =
         [status      |-> "ok",
          no_change   |-> /\ summary.to_add = 0
                          /\ summary.to_change = 0
                          /\ summary.to_destroy = 0,
          summary     |-> summary,
          table_diffs |-> table_diffs]
    /\ d_pc' = "done"
    /\ UNCHANGED <<local_tables, remote_tables, todo, table_diffs, fetch_vars, exec_vars, wait_vars, filter_vars, detect_vars, query_vars, apply_vars>>

----------------------------------------------------------------------------
(* Change detection: detect_changes and what it calls, src/differ.rs *)

\* the characters of a string literal, one by one
Chars(str) == [i \in 1..Len(str) |-> SubSeq(str, i, i)]

\* Option<T>
None == [some |-> FALSE]

Some(v) == [some |-> TRUE, value |-> v]

\* most columns of a column map given to detect_column_changes
MaxColumns == 2

ColumnNames == {Chars("id"), Chars("email"), Chars("old_field")}

ColumnTypes == {Chars("int"), Chars("bigint"), Chars("string")}

\* HashMap<String, String>: column name to type
ColumnMaps ==
    UNION {[names -> ColumnTypes] :
             names \in {ns \in SUBSET ColumnNames : Cardinality(ns) <= MaxColumns}}

ColumnChange(change_type, column_name, old_type, new_type) ==
    [change_type |-> change_type, column_name |-> column_name,
     old_type |-> old_type, new_type |-> new_type]

\* first loop of detect_column_changes, over remote_columns in the order the
\* HashMap hands them out
RECURSIVE removed_columns(_, _, _)
removed_columns(order, remote_columns, local_columns) ==
    IF order = <<>> THEN <<>>
    ELSE LET col_name == Head(order) IN
         (IF col_name \notin DOMAIN local_columns
          THEN <<ColumnChange("Removed", col_name, Some(remote_columns[col_name]), None)>>
          ELSE <<>>)
           \o removed_columns(Tail(order), remote_columns, local_columns)

\* the guard `old_type != new_type` is missing
RECURSIVE added_or_retyped_columns(_, _, _)
added_or_retyped_columns(order, remote_columns, local_columns) ==
    IF order = <<>> THEN <<>>
    ELSE LET col_name == Head(order)
             new_type == local_columns[col_name]
         IN (IF col_name \notin DOMAIN remote_columns
             THEN <<ColumnChange("Added", col_name, None, Some(new_type))>>
             ELSE <<ColumnChange("TypeChanged", col_name,
                                 Some(remote_columns[col_name]), Some(new_type))>>)
              \o added_or_retyped_columns(Tail(order), remote_columns, local_columns)

\* second loop of detect_column_changes, over local_columns
RECURSIVE added_or_changed_columns(_, _, _)
added_or_changed_columns(order, remote_columns, local_columns) ==
    IF order = <<>> THEN <<>>
    ELSE LET col_name == Head(order)
             new_type == local_columns[col_name]
         IN (IF col_name \notin DOMAIN remote_columns
             THEN <<ColumnChange("Added", col_name, None, Some(new_type))>>
             ELSE IF remote_columns[col_name] # new_type
             THEN <<ColumnChange("TypeChanged", col_name,
                                 Some(remote_columns[col_name]), Some(new_type))>>
             ELSE <<>>)
              \o added_or_changed_columns(Tail(order), remote_columns, local_columns)

\* every common column is reported as TypeChanged
detect_column_changes_unguarded(remote_columns, local_columns, remote_order, local_order) ==
    removed_columns(remote_order, remote_columns, local_columns)
      \o added_or_retyped_columns(local_order, remote_columns, local_columns)

\* remote_order and local_order: the orders in which the two HashMaps are iterated
detect_column_changes(remote_columns, local_columns, remote_order, local_order) ==
    removed_columns(remote_order, remote_columns, local_columns)
      \o added_or_changed_columns(local_order, remote_columns, local_columns)

\* ASCII letters, for str::to_lowercase and str::to_uppercase
UpperCase == Chars("ABCDEFGHIJKLMNOPQRSTUVWXYZ")

LowerCase == Chars("abcdefghijklmnopqrstuvwxyz")

Whitespace == {" ", "\t", "\n", "\r"}

\* the class \w of the regex crate, restricted to ASCII
WordChars ==
    {UpperCase[i] : i \in DOMAIN UpperCase} \cup {LowerCase[i] : i \in DOMAIN LowerCase}
      \cup {"0", "1", "2", "3", "4", "5", "6", "7", "8", "9", "_"}

to_lowercase(s) ==
    [i \in 1..Len(s) |->
       IF \E k \in DOMAIN UpperCase : UpperCase[k] = s[i]
       THEN LowerCase[CHOOSE k \in DOMAIN UpperCase : UpperCase[k] = s[i]]
       ELSE s[i]]

to_uppercase(s) ==
    [i \in 1..Len(s) |->
       IF \E k \in DOMAIN LowerCase : LowerCase[k] = s[i]
       THEN UpperCase[CHOOSE k \in DOMAIN LowerCase : LowerCase[k] = s[i]]
       ELSE s[i]]

\* str::trim_start
RECURSIVE trim_start(_)
trim_start(s) ==
    IF s = <<>> THEN s
    ELSE IF IsWhitespace(s[1]) THEN trim_start(Tail(s))
    ELSE s

\* str::trim
trim(s) == trim_start(trim_end(s))

\* str::starts_with
starts_with(s, prefix) ==
    Len(s) >= Len(prefix) /\ SubSeq(s, 1, Len(prefix)) = prefix

\* str::ends_with
ends_with(s, suffix) ==
    Len(s) >= Len(suffix) /\ SubSeq(s, Len(s) - Len(suffix) + 1, Len(s)) = suffix

\* the index after the longest run of characters of class that starts at i
RECURSIVE span(_, _, _)
span(s, i, class) ==
    IF i > Len(s) THEN i
    ELSE IF s[i] \in class THEN span(s, i + 1, class)
    ELSE i

\* a literal of a (?i) expression matches s at position i
matches_word(s, i, word) ==
    /\ i + Len(word) - 1 <= Len(s)
    /\ to_lowercase(SubSeq(s, i, i + Len(word) - 1)) = to_lowercase(word)

\* the smallest element of a non-empty set of numbers
Min(set) == CHOOSE x \in set : \A y \in set : x <= y

\* (?i)LOCATION\s+'([^']+)' matched at position i: the capture group
location_at(s, i) ==
    LET a == i + 8
        b == span(s, a, Whitespace)
        e == find_char(s, "'", b + 1)
    IN IF /\ matches_word(s, i, Chars("LOCATION"))
          /\ b > a
          /\ b <= Len(s)
          /\ s[b] = "'"
          /\ e > b + 1
       THEN Some(SubSeq(s, b + 1, e - 1))
       ELSE None

\* (?i)STORED\s+AS\s+(\w+) matched at position i: the capture group
stored_as_at(s, i) ==
    LET a == i + 6
        b == span(s, a, Whitespace)
        c == b + 2
        d == span(s, c, Whitespace)
        e == span(s, d, WordChars)
    IN IF /\ matches_word(s, i, Chars("STORED"))
          /\ b > a
          /\ matches_word(s, b, Chars("AS"))
          /\ d > c
          /\ e > d
       THEN Some(SubSeq(s, d, e - 1))
       ELSE None

\* (?i)PARTITIONED\s+BY\s*\(([^)]+)\) matched at position i: the capture group
partitioned_by_at(s, i) ==
    LET a == i + 11
        b == span(s, a, Whitespace)
        c == b + 2
        d == span(s, c, Whitespace)
        e == find_char(s, ")", d + 1)
    IN IF /\ matches_word(s, i, Chars("PARTITIONED"))
          /\ b > a
          /\ matches_word(s, b, Chars("BY"))
          /\ d <= Len(s)
          /\ s[d] = "("
          /\ e > d + 1
       THEN Some(SubSeq(s, d + 1, e - 1))
       ELSE None

\* re.captures(sql)?.get(1): the leftmost match
extract_location(sql) ==
    LET hits == {i \in 1..Len(sql) : location_at(sql, i).some} IN
    IF hits = {} THEN None ELSE location_at(sql, Min(hits))

\* the capture, upper-cased
extract_stored_as(sql) ==
    LET hits == {i \in 1..Len(sql) : stored_as_at(sql, i).some} IN
    IF hits = {} THEN None
    ELSE Some(to_uppercase(stored_as_at(sql, Min(hits)).value))

\* the capture, trimmed
extract_partitioned_by(sql) ==
    LET hits == {i \in 1..Len(sql) : partitioned_by_at(sql, i).some} IN
    IF hits = {} THEN None
    ELSE Some(trim(partitioned_by_at(sql, Min(hits)).value))

PropertyChange(property_name, old_value, new_value) ==
    [property_name |-> property_name, old_value |-> old_value,
     new_value |-> new_value]

\* `if let (Some(..), Some(..)) ... else if a.is_some() != b.is_some()`
compare_property(property_name, remote_value, local_value) ==
    IF remote_value.some /\ local_value.some
    THEN IF remote_value.value # local_value.value
         THEN <<PropertyChange(property_name, remote_value, local_value)>>
         ELSE <<>>
    ELSE IF remote_value.some # local_value.some
         THEN <<PropertyChange(property_name, remote_value, local_value)>>
         ELSE <<>>

\* `if let (Some(..), Some(..))` without the else branch
compare_property_both_present(property_name, remote_value, local_value) ==
    IF remote_value.some /\ local_value.some /\ remote_value.value # local_value.value
    THEN <<PropertyChange(property_name, remote_value, local_value)>>
    ELSE <<>>

\* a property present on one side only is not reported
detect_property_changes_both_present(remote_sql, local_sql) ==
    compare_property_both_present("location", extract_location(remote_sql),
                                  extract_location(local_sql))
      \o compare_property_both_present("format", extract_stored_as(remote_sql),
                                       extract_stored_as(local_sql))
      \o compare_property_both_present("partitions", extract_partitioned_by(remote_sql),
                                       extract_partitioned_by(local_sql))

detect_property_changes(remote_sql, local_sql) ==
    compare_property("location", extract_location(remote_sql),
                     extract_location(local_sql))
      \o compare_property("format", extract_stored_as(remote_sql),
                          extract_stored_as(local_sql))
      \o (LET remote_parts == extract_partitioned_by(remote_sql)
              local_parts == extract_partitioned_by(local_sql)
          IN IF remote_parts # local_parts
             THEN <<PropertyChange("partitions", remote_parts, local_parts)>>
             ELSE <<>>)

\* index of the first whitespace character of s at or after i, 0 when there
\* is none
RECURSIVE find_whitespace(_, _)
find_whitespace(s, i) ==
    IF i > Len(s) THEN 0
    ELSE IF IsWhitespace(s[i]) THEN i
    ELSE find_whitespace(s, i + 1)

\* HashMap::insert
insert(map, key, value) ==
    [k \in DOMAIN map \cup {key} |-> IF k = key THEN value ELSE map[k]]

\* trimmed.splitn(2, char::is_whitespace): Option<(name, type)>
parse_column_definition(input) ==
    LET trimmed == trim(input)
        ws == find_whitespace(trimmed, 1)
    IN IF trimmed = <<>> \/ ws = 0 THEN None
       ELSE LET name == trim(SubSeq(trimmed, 1, ws - 1))
                typ == trim(SubSeq(trimmed, ws + 1, Len(trimmed)))
            IN IF name # <<>> /\ typ # <<>> THEN Some(<<name, typ>>) ELSE None

\* the loop of split_column_definitions over input.chars()
RECURSIVE split_chars(_, _, _)
split_chars(input, depth, current) ==
    LET piece == IF trim(current) # <<>> THEN <<trim(current)>> ELSE <<>> IN
    IF input = <<>> THEN piece
    ELSE LET ch == Head(input) IN
         IF ch \in {"<", "("}
         THEN split_chars(Tail(input), depth + 1, Append(current, ch))
         ELSE IF ch \in {">", ")"}
         THEN split_chars(Tail(input), depth - 1, Append(current, ch))
         ELSE IF ch = "," /\ depth = 0
         THEN piece \o split_chars(Tail(input), depth, <<>>)
         ELSE split_chars(Tail(input), depth, Append(current, ch))

split_column_definitions(input) == split_chars(input, 0, <<>>)

\* `for col_def in col_defs { if let Some((name, typ)) = ... { columns.insert(..) } }`
RECURSIVE insert_columns(_, _)
insert_columns(columns, col_defs) ==
    IF col_defs = <<>> THEN columns
    ELSE LET parsed == parse_column_definition(Head(col_defs)) IN
         insert_columns(IF parsed.some
                        THEN insert(columns, to_lowercase(parsed.value[1]),
                                    to_lowercase(parsed.value[2]))
                        ELSE columns,
                        Tail(col_defs))

\* `Detect end of column definitions`
ends_columns_section(trimmed) ==
    \/ starts_with(trimmed, <<")">>)
    \/ starts_with(to_lowercase(trimmed), Chars("stored"))
    \/ starts_with(to_lowercase(trimmed), Chars("partitioned"))
    \/ starts_with(to_lowercase(trimmed), Chars("location"))
    \/ starts_with(to_lowercase(trimmed), Chars("row format"))

\* the loop of extract_columns over sql.lines(): the columns found and the
\* text still accumulated when the loop ends or breaks
RECURSIVE extract_lines(_, _, _, _)
extract_lines(ls, in_columns_section, accumulated_line, columns) ==
    IF ls = <<>>
    THEN [columns |-> columns, accumulated_line |-> accumulated_line]
    ELSE LET trimmed == trim(Head(ls))
             pos == find_char(trimmed, "(", 1)
         IN IF ~in_columns_section /\ pos # 0
            THEN extract_lines(Tail(ls), TRUE,
                               SubSeq(trimmed, pos + 1, Len(trimmed)), columns)
            ELSE IF ~in_columns_section
            THEN extract_lines(Tail(ls), FALSE, accumulated_line, columns)
            ELSE IF ends_columns_section(trimmed)
            THEN [columns |-> columns, accumulated_line |-> accumulated_line]
            ELSE LET accumulated ==
                       (IF accumulated_line # <<>>
                        THEN accumulated_line \o <<" ">> ELSE <<>>) \o trimmed
                 IN IF find_char(accumulated, ",", 1) # 0 \/ ends_with(trimmed, <<")">>)
                    THEN extract_lines(Tail(ls), TRUE, <<>>,
                                       insert_columns(columns,
                                                      split_column_definitions(accumulated)))
                    ELSE extract_lines(Tail(ls), TRUE, accumulated, columns)

extract_columns(sql) ==
    LET scanned == extract_lines(lines(sql), FALSE, <<>>, <<>>) IN
    IF scanned.accumulated_line # <<>>
    THEN insert_columns(scanned.columns,
                        split_column_definitions(scanned.accumulated_line))
    ELSE scanned.columns

\* a text of several lines
Text(ls) == join(ls, <<"\n">>)

\* DDL texts of a table, as a file holds them and as SHOW CREATE TABLE returns them
ParquetDdl ==
    Text(<<Chars("CREATE TABLE t ("), Chars("  id int"), Chars(")"),
           Chars("STORED AS PARQUET")>>)

OrcDdl ==
    Text(<<Chars("CREATE TABLE t ("), Chars("  id int"), Chars(")"),
           Chars("STORED AS ORC")>>)

WidenedDdl ==
    Text(<<Chars("CREATE TABLE t ("), Chars("  id bigint,"), Chars("  email string"),
           Chars(")"), Chars("STORED AS PARQUET")>>)

LocatedDdl ==
    Text(<<Chars("CREATE TABLE t ("), Chars("  id int"), Chars(")"),
           Chars("PARTITIONED BY (dt string)"), Chars("stored as parquet"),
           Chars("LOCATION 's3://b/t'")>>)

RelocatedDdl ==
    Text(<<Chars("CREATE TABLE t ("), Chars("  id int"), Chars(")"),
           Chars("PARTITIONED BY ( day string )"), Chars("STORED  AS parquet"),
           Chars("location 's3://b/u'")>>)

NestedDdl ==
    Text(<<Chars("CREATE TABLE t ("), Chars("  m map<string,int>,"),
           Chars("  d decimal(10,2)"), Chars(")"), Chars("STORED AS ORC")>>)

SingleLineDdl == Chars("CREATE TABLE t (id int, email string) STORED AS PARQUET")

ClosedOnColumnLineDdl ==
    Text(<<Chars("CREATE TABLE t("), Chars("  id int, "), Chars("  email string)"),
           Chars("STORED AS PARQUET")>>)

\* longest text given to normalize_sql on its own
MaxTextLen == 5

\* texts of letters, blanks, tabs, carriage returns and line feeds
NormalizeTexts == UNION {[1..n -> {"a", " ", "\t", "\r", "\n"}] : n \in 0..MaxTextLen}

\* most rows of a SHOW CREATE TABLE result
MaxResultRows == 3

\* QueryRow: no column, or one column with a line of text
ResultRows ==
    {<<>>, <<Chars("createtab_stmt")>>, <<Chars("CREATE TABLE t (")>>,
     <<Chars("  id int)")>>}

\* QueryResult.rows
ResultRowLists == UNION {[1..n -> ResultRows] : n \in 0..MaxResultRows}

\* rows.iter().filter_map(..): the first column of every row that has one
RECURSIVE first_columns(_)
first_columns(rows) ==
    IF rows = <<>> THEN <<>>
    ELSE (IF Head(rows) # <<>> THEN <<Head(rows)[1]>> ELSE <<>>)
           \o first_columns(Tail(rows))

\* extract_ddl_from_query_result of commands/export.rs
export_extract_ddl_from_query_result(result) ==
    IF result.rows = <<>> THEN None
    ELSE LET ddl_lines == first_columns(result.rows) IN
         IF ddl_lines = <<>> THEN None ELSE Some(join(ddl_lines, <<"\n">>))

DetectTexts ==
    {ParquetDdl, OrcDdl, WidenedDdl, LocatedDdl, RelocatedDdl, NestedDdl,
     SingleLineDdl, ClosedOnColumnLineDdl}

InitDetect ==
    /\ c_pc = "start"
    /\ c_remote_sql = <<>>
    /\ c_local_sql = <<>>
    /\ c_remote_columns = <<>>
    /\ c_local_columns = <<>>
    /\ c_column_changes = <<>>
    /\ c_property_changes = <<>>
    /\ c_text = <<>>
    /\ c_normalized = <<>>
    /\ c_rows = <<>>
    /\ c_ddl = None
    /\ c_exported = None

\* detect_column_changes(&remote_columns, &local_columns)
DetectColumnChanges ==
    /\ c_pc = "start"
    /\ \E remote_columns \in ColumnMaps, local_columns \in ColumnMaps :
       \E remote_order \in Orders(DOMAIN remote_columns),
          local_order \in Orders(DOMAIN local_columns) :
          /\ c_remote_columns' = remote_columns
          /\ c_local_columns' = local_columns
          /\ c_column_changes' =
               detect_column_changes(remote_columns, local_columns,
                                     remote_order, local_order)
    /\ c_pc' = "columns"
    /\ UNCHANGED <<c_remote_sql, c_local_sql, c_property_changes, c_text,
                   c_normalized, c_rows, c_ddl, c_exported,
                   diff_vars, exec_vars, wait_vars, filter_vars, query_vars, apply_vars>>

\* the third loop of compute_table_diffs for one table present on both
\* sides: the two texts normalized, and detect_changes when they differ
DetectChanges ==
    /\ c_pc = "start"
    /\ \E remote_ddl \in DetectTexts, content \in DetectTexts :
         LET normalized_remote == normalize_sql(remote_ddl)
             normalized_local == normalize_sql(content)
             remote_columns == extract_columns(normalized_remote)
             local_columns == extract_columns(normalized_local)
         IN /\ normalized_remote # normalized_local
            /\ c_remote_sql' = normalized_remote
            /\ c_local_sql' = normalized_local
            /\ c_remote_columns' = remote_columns
            /\ c_local_columns' = local_columns
            /\ \E remote_order \in Orders(DOMAIN remote_columns),
                  local_order \in Orders(DOMAIN local_columns) :
                 c_column_changes' =
                   detect_column_changes(remote_columns, local_columns,
                                         remote_order, local_order)
            /\ c_property_changes' =
                 detect_property_changes(normalized_remote, normalized_local)
    /\ c_pc' = "changes"
    /\ UNCHANGED <<c_text, c_normalized, c_rows, c_ddl, c_exported,
                   diff_vars, exec_vars, wait_vars, filter_vars, query_vars, apply_vars>>

\* normalize_sql(sql)
Normalize ==
    /\ c_pc = "start"
    /\ \E text \in NormalizeTexts :
         /\ c_text' = text
         /\ c_normalized' = <<normalize_sql(text)>>
    /\ c_pc' = "normalized"
    /\ UNCHANGED <<c_remote_sql, c_local_sql, c_remote_columns, c_local_columns,
                   c_column_changes, c_property_changes, c_rows, c_ddl, c_exported,
                   diff_vars, exec_vars, wait_vars, filter_vars, query_vars, apply_vars>>

\* normalize_sql applied to the text it returned
NormalizeAgain ==
    /\ c_pc = "normalized"
    /\ c_normalized' = Append(c_normalized, normalize_sql(c_normalized[1]))
    /\ c_pc' = "renormalized"
    /\ UNCHANGED <<c_remote_sql, c_local_sql, c_remote_columns, c_local_columns,
                   c_column_changes, c_property_changes, c_text, c_rows, c_ddl,
                   c_exported,
                   diff_vars, exec_vars, wait_vars, filter_vars, query_vars, apply_vars>>

\* the result of one SHOW CREATE TABLE, as get_remote_tables reads it for the
\* comparison and as export reads it for the table's file
ExtractDdl ==
    /\ c_pc = "start"
    /\ \E rows \in ResultRowLists :
         /\ c_rows' = rows
         /\ c_ddl' = extract_ddl_from_query_result([status |-> "ok", rows |-> rows])
         /\ c_exported' =
              export_extract_ddl_from_query_result([status |-> "ok", rows |-> rows])
    /\ c_pc' = "ddl"
    /\ UNCHANGED <<c_remote_sql, c_local_sql, c_remote_columns, c_local_columns,
                   c_column_changes, c_property_changes, c_text, c_normalized,
                   diff_vars, exec_vars, wait_vars, filter_vars, query_vars, apply_vars>>

NextDetect ==
    \/ ExtractDdl
    \/ DetectColumnChanges
    \/ DetectChanges
    \/ Normalize
    \/ NormalizeAgain

----------------------------------------------------------------------------
(* QueryExecutor::execute_query *)

\* most result pages of an execution
MaxPages == 2

\* most rows of a result page
MaxPageRows == 2

\* most status requests one wait_for_completion sends before its timeout elapses
MaxPolls == 2

\* Datum.var_char_value: Option<&str>
Datums == {None, Some("a")}

\* a Row of the service: one Datum per column
ServiceRows == {<<d>> : d \in Datums}

\* GetQueryResultsOutput.result_set: None, or Some with its rows
ResultSets ==
    {None} \cup {Some(rows) : rows \in UNION {[1..n -> ServiceRows] : n \in 0..MaxPageRows}}

\* the pages the service holds for an execution, at least one
PageLists == UNION {[1..n -> ResultSets] : n \in 1..MaxPages}

\* row.data().iter().map(|datum| datum.var_char_value()...unwrap_or_default())
row_columns(row) == [i \in 1..Len(row) |-> IF row[i].some THEN row[i].value ELSE ""]

\* the rows of a page are put in front of those of the pages before
push_rows_front(rows, result_set) ==
    IF result_set.some
    THEN [i \in 1..Len(result_set.value) |-> row_columns(result_set.value[i])] \o rows
    ELSE rows

\* `if let Some(result_set) = response.result_set() { for row ... push }`
push_rows(rows, result_set) ==
    IF result_set.some
    THEN rows \o [i \in 1..Len(result_set.value) |-> row_columns(result_set.value[i])]
    ELSE rows

\* the page a request with this next_token is answered with
page_index(token) == IF token.some THEN token.value ELSE 1

\* response.next_token(): the token of the following page, None on the last one
next_token(pages, index) == IF index < Len(pages) THEN Some(index + 1) ELSE None

\* get_query_status: the QueryExecutionStatus of a reported state
status_of(state) ==
    IF state \in {"QUEUED", "RUNNING", "SUCCEEDED", "FAILED", "CANCELLED"}
    THEN state ELSE "FAILED"

\* QueryResult::new(execution_id, status), then its rows and error_message
QueryResultWith(execution_id, status, error_message, rows) ==
    [status |-> "ok", execution_id |-> execution_id, query_status |-> status,
     error_message |-> error_message, rows |-> rows]

\* an error is dropped and the next step runs
PropagateNever(outcome, next_pc) == next_pc

\* the `?` of execute_query and get_query_results: an Err returns at once
Propagate(outcome, next_pc) ==
    IF outcome.status = "err" THEN "returned" ELSE next_pc

InitQuery ==
    /\ q_pc = "idle"
    /\ q_method = "none"
    /\ q_execution_id = 0
    /\ q_state = "QUEUED"
    /\ q_pages = <<>>
    /\ q_token = None
    /\ q_rows = <<>>
    /\ q_ret = [status |-> "none"]
    /\ q_log = <<>>
    /\ q_waited = [status |-> "none"]

\* one step of the method ends with outcome, or goes on at next_pc
QueryGoes(outcome, next_pc) ==
    /\ q_pc' = Propagate(outcome, next_pc)
    /\ q_ret' = IF Propagate(outcome, next_pc) = "returned" THEN outcome ELSE q_ret

\* execute_query(query) is called, or get_query_results(execution_id) for an
\* execution the service has, in any state
QueryCall ==
    /\ q_pc = "idle"
    /\ \E pages \in PageLists : q_pages' = pages
    /\ \/ /\ q_method' = "execute_query"
          /\ q_pc' = "submit"
          /\ UNCHANGED <<q_execution_id, q_state>>
       \/ /\ q_method' = "get_query_results"
          /\ q_pc' = "status"
          /\ q_execution_id' = 1
          /\ \E state \in RemoteStates : q_state' = state
    /\ UNCHANGED <<q_token, q_rows, q_ret, q_log, q_waited,
                   diff_vars, exec_vars, wait_vars, filter_vars, detect_vars, apply_vars>>

\* start_query_execution(query).await?
QuerySubmit ==
    /\ q_pc = "submit"
    /\ q_log' = Append(q_log, "StartQueryExecution")
    /\ \E answer \in {"rejected", "no_id", "id"} :
         CASE answer = "rejected" ->
                /\ QueryGoes(Err("Failed to start query execution", ""), "wait")
                /\ UNCHANGED q_execution_id
           [] answer = "no_id" ->
                /\ QueryGoes(Err("No query execution ID returned", ""), "wait")
                /\ UNCHANGED q_execution_id
           [] answer = "id" ->
                /\ q_execution_id' = 1
                /\ QueryGoes(Ok, "wait")
    /\ UNCHANGED <<q_method, q_state, q_pages, q_token, q_rows, q_waited,
                   diff_vars, exec_vars, wait_vars, filter_vars, detect_vars, apply_vars>>

\* status requests the log holds
Polls(log) == Cardinality({i \in DOMAIN log : log[i] = "GetQueryExecution"})

\* wait_for_completion(&execution_id).await?: one turn of its loop; the
\* timeout check fires, or the status is requested and matched
QueryWait ==
    /\ q_pc = "wait"
    /\ \/ /\ q_waited' = Err("Query execution timed out", "")
          /\ QueryGoes(Err("Query execution timed out", ""), "status")
          /\ UNCHANGED q_log
       \/ /\ Polls(q_log) < MaxPolls
          /\ q_log' = Append(q_log, "GetQueryExecution")
          /\ \E answer \in {"fails", "full", "empty"}, reason \in Reasons :
               LET resp == [state  |-> IF answer = "empty" THEN "NONE" ELSE q_state,
                            reason |-> IF answer = "full" /\ q_state = "FAILED"
                                       THEN reason ELSE "NONE"]
                   turn == IF answer = "fails"
                           THEN Err("Failed to get query execution status", "")
                           ELSE match_state(resp)
               IN IF turn = Sleep
                  THEN UNCHANGED <<q_pc, q_ret, q_waited>>
                  ELSE /\ q_waited' = turn
                       /\ QueryGoes(turn, "status")
    /\ UNCHANGED <<q_method, q_execution_id, q_state, q_pages, q_token, q_rows,
                   diff_vars, exec_vars, wait_vars, filter_vars, detect_vars, apply_vars>>

\* get_query_results: get_query_status(execution_id).await?, and the result
\* without rows of an execution that has not succeeded
QueryStatus ==
    /\ q_pc = "status"
    /\ q_log' = Append(q_log, "GetQueryExecution")
    /\ \E answer \in {"fails", "full", "empty"} :
         CASE answer = "fails" ->
                QueryGoes(Err("Failed to get query execution status", ""), "page")
           [] answer = "empty" ->
                QueryGoes(Err("Query execution state not available", ""), "page")
           [] answer = "full" ->
                IF status_of(q_state) = "SUCCEEDED" THEN QueryGoes(Ok, "page")
                ELSE IF status_of(q_state) = "FAILED" THEN QueryGoes(Ok, "reason")
                ELSE /\ q_pc' = "returned"
                     /\ q_ret' = QueryResultWith(q_execution_id, status_of(q_state),
                                                 None, <<>>)
    /\ UNCHANGED <<q_method, q_execution_id, q_state, q_pages, q_token, q_rows,
                   q_waited,
                   diff_vars, exec_vars, wait_vars, filter_vars, detect_vars, apply_vars>>

\* get_query_results of a failed execution: the second get_query_execution,
\* for the state_change_reason
QueryReason ==
    /\ q_pc = "reason"
    /\ q_log' = Append(q_log, "GetQueryExecution")
    /\ \/ QueryGoes(Err("Failed to get query execution details", ""), "returned")
       \/ \E reason \in Reasons :
            /\ q_pc' = "returned"
            /\ q_ret' = QueryResultWith(q_execution_id, "FAILED",
                                        IF reason = "NONE" THEN None ELSE Some(reason),
                                        <<>>)
    /\ UNCHANGED <<q_method, q_execution_id, q_state, q_pages, q_token, q_rows,
                   q_waited,
                   diff_vars, exec_vars, wait_vars, filter_vars, detect_vars, apply_vars>>

\* get_query_results of a succeeded execution: one turn of the loop, a
\* request for the page of next_token
QueryPage ==
    /\ q_pc = "page"
    /\ q_log' = Append(q_log, "GetQueryResults")
    /\ \/ /\ QueryGoes(Err("Failed to get query results", ""), "page")
          /\ UNCHANGED <<q_token, q_rows>>
       \/ LET index == page_index(q_token)
              rows == push_rows(q_rows, q_pages[index])
              token == next_token(q_pages, index)
          IN /\ q_rows' = rows
             /\ q_token' = token
             /\ IF token.some
                THEN UNCHANGED <<q_pc, q_ret>>
                ELSE /\ q_pc' = "returned"
                     /\ q_ret' = QueryResultWith(q_execution_id, "SUCCEEDED", None, rows)
    /\ UNCHANGED <<q_method, q_execution_id, q_state, q_pages, q_waited,
                   diff_vars, exec_vars, wait_vars, filter_vars, detect_vars, apply_vars>>

\* the service moves the execution on
QueryProgress ==
    /\ q_pc = "wait"
    /\ q_state \notin TerminalStates
    /\ \E state \in RemoteStates \ {"QUEUED", q_state} : q_state' = state
    /\ UNCHANGED <<q_pc, q_method, q_execution_id, q_pages, q_token, q_rows,
                   q_ret, q_log, q_waited,
                   diff_vars, exec_vars, wait_vars, filter_vars, detect_vars, apply_vars>>

NextQuery ==
    \/ QueryCall
    \/ QuerySubmit
    \/ QueryWait
    \/ QueryStatus
    \/ QueryReason
    \/ QueryPage
    \/ QueryProgress

----------------------------------------------------------------------------
(* commands::apply::execute *)

\* most entries of the table_diffs apply walks through
MaxDiffs == 2

\* the entries compute_table_diffs produces
ApplyEntries ==
    {TableDiff(db, table, op) :
       db \in DatabaseNames, table \in LocalTableNames,
       op \in {"Create", "Update", "Delete"}}

\* Vec<TableDiff>: one entry per table at most
ApplyTableDiffs ==
    {diffs \in UNION {[1..n -> ApplyEntries] : n \in 0..MaxDiffs} :
       \A i, j \in DOMAIN diffs :
         i # j => diffs[i].table_name # diffs[j].table_name}

\* the DiffResult calculate_diff builds from table_diffs
DiffResultOf(diffs) ==
    LET summary == from_table_diffs(diffs) IN
    [status      |-> "ok",
     no_change   |-> /\ summary.to_add = 0
                     /\ summary.to_change = 0
                     /\ summary.to_destroy = 0,
     summary     |-> summary,
     table_diffs |-> diffs]

\* lines read_line can put into `input`: "" at end of input
AnswerLines ==
    {Chars("yes\n"), Chars("yes"), Chars(" yes \r\n"), Chars("Yes\n"), Chars("YES\n"),
     Chars("y\n"), Chars("yes please\n"), Chars("no\n"), Chars("\n"), <<>>}

\* any answer that begins with "y" is taken for an approval
prompt_for_confirmation_lenient(input) ==
    starts_with(to_lowercase(trim(input)), Chars("y"))

\* input.trim() == "yes"
prompt_for_confirmation(input) == trim(input) = Chars("yes")

\* format!("CREATE DATABASE IF NOT EXISTS ..", database_name)
CreateDatabase(table_diff) ==
    [kind |-> "CREATE DATABASE IF NOT EXISTS",
     database_name |-> table_diff.database_name, table_name |-> <<>>]

\* FileUtils::read_sql_file(&file_path)?: not a query
ReadSqlFile(table_diff) ==
    [kind |-> "read_sql_file",
     database_name |-> table_diff.database_name, table_name |-> table_diff.table_name]

\* the content of the table's file, a CREATE TABLE statement
CreateTable(table_diff) ==
    [kind |-> "CREATE TABLE",
     database_name |-> table_diff.database_name, table_name |-> table_diff.table_name]

\* format!("DROP TABLE IF EXISTS ..", database_name, table_name)
DropTable(table_diff) ==
    [kind |-> "DROP TABLE IF EXISTS",
     database_name |-> table_diff.database_name, table_name |-> table_diff.table_name]

\* create_table: the steps it takes, in order
create_table(table_diff) ==
    <<CreateDatabase(table_diff), ReadSqlFile(table_diff), CreateTable(table_diff)>>

\* the table is created again before the old one is dropped
update_table_create_first(table_diff) ==
    create_table(table_diff) \o <<DropTable(table_diff)>>

\* update_table: drop, then create_table
update_table(table_diff) == <<DropTable(table_diff)>> \o create_table(table_diff)

delete_table(table_diff) == <<DropTable(table_diff)>>

\* `match table_diff.operation` of apply_changes
steps_of(table_diff) ==
    CASE table_diff.operation = "Create" -> create_table(table_diff)
      [] table_diff.operation = "Update" -> update_table(table_diff)
      [] table_diff.operation = "Delete" -> delete_table(table_diff)
      [] OTHER -> <<>>

\* what the execute_query of a submitted statement can come to, and whether
\* the execution is terminal at the service by then
QueryOutcomes ==
    {[result |-> "succeeded", terminal |-> TRUE],
     [result |-> "Query execution failed", terminal |-> TRUE],
     [result |-> "Query execution was cancelled", terminal |-> TRUE],
     [result |-> "Query execution timed out", terminal |-> FALSE],
     [result |-> "Failed to get query execution status", terminal |-> FALSE],
     [result |-> "Failed to get query results", terminal |-> TRUE]}

InitApply ==
    /\ a_pc = "start"
    /\ a_dry_run = FALSE
    /\ a_auto_approve = FALSE
    /\ a_diff = [status |-> "none"]
    /\ a_displayed = FALSE
    /\ a_answer = None
    /\ a_idx = 0
    /\ a_stmts = <<>>
    /\ a_running = {}
    /\ a_log = <<>>
    /\ a_ret = [status |-> "none"]

\* execute(config_path, targets, auto_approve, dry_run) up to calculate_diff
ApplyCall ==
    /\ a_pc = "start"
    /\ \E auto_approve \in BOOLEAN, dry_run \in BOOLEAN :
         /\ a_auto_approve' = auto_approve
         /\ a_dry_run' = dry_run
    /\ a_pc' = "diff"
    /\ UNCHANGED <<a_diff, a_displayed, a_answer, a_idx, a_stmts, a_running, a_log,
                   a_ret,
                   diff_vars, exec_vars, wait_vars, filter_vars, detect_vars, query_vars>>

\* differ.calculate_diff(..).await.context(..)?
ApplyDiff ==
    /\ a_pc = "diff"
    /\ \/ /\ a_ret' = Err("Failed to calculate differences", "")
          /\ a_pc' = "returned"
          /\ UNCHANGED a_diff
       \/ /\ \E diffs \in ApplyTableDiffs : a_diff' = DiffResultOf(diffs)
          /\ a_pc' = "display"
          /\ UNCHANGED a_ret
    /\ UNCHANGED <<a_dry_run, a_auto_approve, a_displayed, a_answer, a_idx, a_stmts,
                   a_running, a_log,
                   diff_vars, exec_vars, wait_vars, filter_vars, detect_vars, query_vars>>

\* display_diff_result(&diff_result, false)?, then the dry_run and no_change
\* returns
ApplyDisplay ==
    /\ a_pc = "display"
    /\ \/ /\ a_ret' = Err("display_diff_result", "")
          /\ a_pc' = "returned"
          /\ UNCHANGED <<a_displayed, a_idx>>
       \/ /\ a_displayed' = TRUE
          /\ IF a_dry_run \/ a_diff.no_change
             THEN /\ a_ret' = Ok
                  /\ a_pc' = "returned"
                  /\ UNCHANGED a_idx
             ELSE /\ a_pc' = IF a_auto_approve THEN "walk" ELSE "prompt"
                  /\ a_idx' = 1
                  /\ UNCHANGED a_ret
    /\ UNCHANGED <<a_dry_run, a_auto_approve, a_diff, a_answer, a_stmts, a_running,
                   a_log,
                   diff_vars, exec_vars, wait_vars, filter_vars, detect_vars, query_vars>>

\* `if !auto_approve && !prompt_for_confirmation()?`
ApplyPrompt ==
    /\ a_pc = "prompt"
    /\ \/ /\ a_ret' = Err("read_line", "")
          /\ a_pc' = "returned"
          /\ UNCHANGED a_answer
       \/ \E input \in AnswerLines :
            /\ a_answer' = Some(input)
            /\ IF prompt_for_confirmation(input)
               THEN a_pc' = "walk" /\ UNCHANGED a_ret
               ELSE a_pc' = "returned" /\ a_ret' = Ok
    /\ UNCHANGED <<a_dry_run, a_auto_approve, a_diff, a_displayed, a_idx, a_stmts,
                   a_running, a_log,
                   diff_vars, exec_vars, wait_vars, filter_vars, detect_vars, query_vars>>

\* apply_changes: the next table_diff of the `for` loop, or Ok(()) after the
\* last one
ApplyNextTable ==
    /\ a_pc = "walk"
    /\ IF a_idx > Len(a_diff.table_diffs)
       THEN /\ a_ret' = Ok
            /\ a_pc' = "returned"
            /\ UNCHANGED <<a_idx, a_stmts>>
       ELSE /\ a_stmts' = steps_of(a_diff.table_diffs[a_idx])
            /\ a_idx' = a_idx + 1
            /\ a_pc' = IF steps_of(a_diff.table_diffs[a_idx]) = <<>> THEN "walk" ELSE "table"
            /\ UNCHANGED a_ret
    /\ UNCHANGED <<a_dry_run, a_auto_approve, a_diff, a_displayed, a_answer,
                   a_running, a_log,
                   diff_vars, exec_vars, wait_vars, filter_vars, detect_vars, query_vars>>

\* the position after the step in front of a_stmts has succeeded
AfterStep == IF Len(a_stmts) = 1 THEN "walk" ELSE "table"

\* FileUtils::get_table_file_path(..)? and FileUtils::read_sql_file(..)?
ApplyReadFile ==
    /\ a_pc = "table"
    /\ Head(a_stmts).kind = "read_sql_file"
    /\ \/ /\ a_ret' = Err("Failed to create table", "read_sql_file")
          /\ a_pc' = "returned"
          /\ UNCHANGED a_stmts
       \/ /\ a_stmts' = Tail(a_stmts)
          /\ a_pc' = AfterStep
          /\ UNCHANGED a_ret
    /\ UNCHANGED <<a_dry_run, a_auto_approve, a_diff, a_displayed, a_answer, a_idx,
                   a_running, a_log,
                   diff_vars, exec_vars, wait_vars, filter_vars, detect_vars, query_vars>>

\* query_executor.execute_query(&statement): start_query_execution is sent;
\* a rejected statement returns the error through `?`
ApplySubmit ==
    /\ a_pc = "table"
    /\ Head(a_stmts).kind # "read_sql_file"
    /\ \E accepted \in BOOLEAN :
         IF accepted
         THEN /\ a_log' = Append(a_log, [statement |-> Head(a_stmts),
                                         outcome |-> "submitted"])
              /\ a_running' = a_running \cup {Len(a_log) + 1}
              /\ a_pc' = "await"
              /\ UNCHANGED a_ret
         ELSE /\ a_log' = Append(a_log, [statement |-> Head(a_stmts),
                                         outcome |-> "Failed to start query execution"])
              /\ a_ret' = Err("Failed to start query execution", "")
              /\ a_pc' = "returned"
              /\ UNCHANGED a_running
    /\ UNCHANGED <<a_dry_run, a_auto_approve, a_diff, a_displayed, a_answer, a_idx,
                   a_stmts,
                   diff_vars, exec_vars, wait_vars, filter_vars, detect_vars, query_vars>>

\* execute_query(..).await of the submitted statement returns: Ok goes on
\* with the next step, Err leaves apply_changes through `?`
ApplyAwait ==
    /\ a_pc = "await"
    /\ \E outcome \in QueryOutcomes :
         /\ a_log' = [a_log EXCEPT ![Len(a_log)].outcome = outcome.result]
         /\ a_running' = IF outcome.terminal THEN a_running \ {Len(a_log)} ELSE a_running
         /\ IF outcome.result = "succeeded"
            THEN /\ a_stmts' = Tail(a_stmts)
                 /\ a_pc' = AfterStep
                 /\ UNCHANGED a_ret
            ELSE /\ a_ret' = Err(outcome.result, "")
                 /\ a_pc' = "returned"
                 /\ UNCHANGED a_stmts
    /\ UNCHANGED <<a_dry_run, a_auto_approve, a_diff, a_displayed, a_answer, a_idx,
                   diff_vars, exec_vars, wait_vars, filter_vars, detect_vars, query_vars>>

\* the service ends an execution apply no longer waits for
ApplyRemoteEnds ==
    /\ a_pc = "returned"
    /\ a_running # {}
    /\ a_running' = {}
    /\ UNCHANGED <<a_pc, a_dry_run, a_auto_approve, a_diff, a_displayed, a_answer,
                   a_idx, a_stmts, a_log, a_ret,
                   diff_vars, exec_vars, wait_vars, filter_vars, detect_vars, query_vars>>

NextApply ==
    \/ ApplyCall
    \/ ApplyDiff
    \/ ApplyDisplay
    \/ ApplyPrompt
    \/ ApplyNextTable
    \/ ApplyReadFile
    \/ ApplySubmit
    \/ ApplyAwait
    \/ ApplyRemoteEnds

Init ==
    /\ InitDiffer
    /\ InitExecutor
    /\ InitWait
    /\ InitFilter
    /\ InitDetect
    /\ InitQuery
    /\ InitApply

NextDiff ==
    \/ GetLocalTables
    \/ ListDatabases
    \/ ListTables
    \/ FetchDdl
    \/ CreateLoop
    \/ CreateLoopEnd
    \/ DeleteLoop
    \/ DeleteLoopEnd
    \/ UpdateLoop
    \/ BuildResult

SpecDiff == Init /\ [][NextDiff]_vars

SpecWait == Init /\ [][NextWait]_vars

\* the loop of wait_for_completion keeps running: the timeout check is made,
\* every status request is answered or fails, every sleep ends
SpecWaitLive ==
    /\ SpecWait
    /\ WF_vars(CheckTimeout)
    /\ WF_vars(PollFails \/ PollAnswers)
    /\ WF_vars(SleepOver)

SpecExec == Init /\ [][NextExec]_vars

\* the runtime runs the caller and every spawned task that can go on, and
\* every execute_query returns: a turn of its waiting loop that only sleeps
\* leaves the state as it is, so the fairness asks for a turn that returns
SpecExecLive ==
    /\ Init
    /\ [][NextExecuteQueries]_vars
    /\ WF_vars(Spawn)
    /\ WF_vars(JoinOk)
    /\ WF_vars(JoinErr)
    /\ WF_vars(ReturnOk)
    /\ \A i \in 1..MaxBatch : WF_vars(TaskStep(i))

SpecFilter == Init /\ [][NextFilter]_vars

SpecDetect == Init /\ [][NextDetect]_vars

SpecQuery == Init /\ [][NextQuery]_vars

SpecApply == Init /\ [][NextApply]_vars

----------------------------------------------------------------------------
(* Properties of the diff result *)

KeyOf(d) == qualified_name(d.database_name, d.table_name)

\* indices of the entries of diffs for table key k with operation op
EntriesFor(diffs, k, op) ==
    {i \in DOMAIN diffs : KeyOf(diffs[i]) = k /\ diffs[i].operation = op}

\* indices of all entries of diffs for table key k
EntriesOf(diffs, k) == {i \in DOMAIN diffs : KeyOf(diffs[i]) = k}

RECURSIVE NumberOf(_, _)
NumberOf(diffs, op) ==
    IF diffs = <<>> THEN 0
    ELSE (IF Head(diffs).operation = op THEN 1 ELSE 0) + NumberOf(Tail(diffs), op)

LocalKeys == DOMAIN local_tables
RemoteKeys == DOMAIN remote_tables
SalesCustomers == qualified_name(<<"s">>, <<"c">>)

\* C1: a returned diff has a Create entry for exactly the keys that are local
\* and not remote, a Delete entry for exactly the keys that are remote and not
\* local; one local table against an empty remote gives the single Create
\* entry, summary {1,0,0} and no_change = false.
C1_CreateDeleteSets ==
    diff_result.status = "ok" =>
      LET diffs == diff_result.table_diffs IN
      /\ \A i \in DOMAIN diffs :
           /\ diffs[i].operation = "Create" =>
                KeyOf(diffs[i]) \in LocalKeys \ RemoteKeys
           /\ diffs[i].operation = "Delete" =>
                KeyOf(diffs[i]) \in RemoteKeys \ LocalKeys
      /\ \A k \in LocalKeys \ RemoteKeys :
           Cardinality(EntriesFor(diffs, k, "Create")) = 1
      /\ \A k \in RemoteKeys \ LocalKeys :
           Cardinality(EntriesFor(diffs, k, "Delete")) = 1
      /\ (LocalKeys = {SalesCustomers} /\ RemoteKeys = {}) =>
           /\ diffs = <<TableDiff(<<"s">>, <<"c">>, "Create")>>
           /\ diff_result.summary = [to_add |-> 1, to_change |-> 0, to_destroy |-> 0]
           /\ diff_result.no_change = FALSE

\* a returned diff with a table to create and another one to delete
C1_Witness ==
    /\ diff_result.status = "ok"
    /\ LocalKeys \ RemoteKeys # {}
    /\ RemoteKeys \ LocalKeys # {}
    /\ \E i, j \in DOMAIN diff_result.table_diffs :
         /\ diff_result.table_diffs[i].operation = "Create"
         /\ diff_result.table_diffs[j].operation = "Delete"

\* C2: a key present on both sides has operation Update iff the normalized
\* texts differ and NoChange otherwise; identical normalized texts for the
\* only table give summary {0,0,0} and no_change = true.
C2_UpdateOrNoChange ==
    diff_result.status = "ok" =>
      LET diffs == diff_result.table_diffs IN
      /\ \A k \in LocalKeys \cap RemoteKeys :
           LET differs == normalize_sql(remote_tables[k])
                            # normalize_sql(local_tables[k].content)
           IN /\ Cardinality(EntriesOf(diffs, k)) = 1
              /\ differs <=> EntriesFor(diffs, k, "Update") # {}
              /\ ~differs <=> EntriesFor(diffs, k, "NoChange") # {}
      /\ ( /\ LocalKeys = {SalesCustomers}
           /\ RemoteKeys = {SalesCustomers}
           /\ normalize_sql(remote_tables[SalesCustomers])
                = normalize_sql(local_tables[SalesCustomers].content) ) =>
           /\ diff_result.summary = [to_add |-> 0, to_change |-> 0, to_destroy |-> 0]
           /\ diff_result.no_change = TRUE

\* C3: every key of local or remote has exactly one entry in a returned diff,
\* and its operation is Create, Update, Delete or NoChange.
C3_ExactlyOneBucket ==
    diff_result.status = "ok" =>
      \A k \in LocalKeys \cup RemoteKeys :
        /\ Cardinality(EntriesOf(diff_result.table_diffs, k)) = 1
        /\ \A i \in EntriesOf(diff_result.table_diffs, k) :
             diff_result.table_diffs[i].operation \in Operations

\* C4: the summary counts the Create, Update and Delete entries of table_diffs
\* and no_change is true iff the three counts are zero.
C4_SummaryCounts ==
    diff_result.status = "ok" =>
      /\ diff_result.summary.to_add = NumberOf(diff_result.table_diffs, "Create")
      /\ diff_result.summary.to_change = NumberOf(diff_result.table_diffs, "Update")
      /\ diff_result.summary.to_destroy = NumberOf(diff_result.table_diffs, "Delete")
      /\ diff_result.no_change <=>
           /\ NumberOf(diff_result.table_diffs, "Create") = 0
           /\ NumberOf(diff_result.table_diffs, "Update") = 0
           /\ NumberOf(diff_result.table_diffs, "Delete") = 0

\* a returned diff with one table to create and one to change
C4_Witness ==
    /\ diff_result.status = "ok"
    /\ diff_result.summary.to_add = 1
    /\ diff_result.summary.to_change = 1
    /\ ~diff_result.no_change

----------------------------------------------------------------------------
(* Properties of the bounded parallel executor *)

\* tasks that hold a slot
Holding == {i \in Tasks : t_pc[i] \in InFlight}

\* the steps a task takes by its own code
TaskOrder ==
    {<<"unspawned", "acquire">>, <<"acquire", "submit">>, <<"submit", "wait">>,
     <<"submit", "done">>, <<"wait", "fetch">>, <<"wait", "done">>,
     <<"fetch", "done">>, <<"unspawned", "poll">>, <<"poll", "done">>}

\* C5: with capacity N, at most N tasks of execute_queries or start_queries
\* hold a slot at any moment, in every interleaving.
C5_AtMostNInFlight == Cardinality(Holding) <= MaxConcurrent

\* all slots are taken and one more task waits for a slot
C5_Witness ==
    /\ Cardinality(Holding) = MaxConcurrent
    /\ \E i \in Tasks : t_pc[i] = "acquire"
    /\ \E i \in Tasks : t_pc[i] = "fetch"

\* C6: when every query succeeds execute_queries returns one result per
\* query, and result i is the result of the execution started for query i,
\* whatever the completion order.
C6_ResultsInInputOrder ==
    (method = "execute_queries" /\ x_pc = "returned") =>
      /\ (\A i \in Tasks : t_out[i].status = "ok") => x_ret.status = "ok"
      /\ x_ret.status = "ok" =>
           /\ Len(x_ret.values) = Len(queries)
           /\ \A i \in Tasks :
                /\ x_ret.values[i].execution_id \in DOMAIN executions
                /\ executions[x_ret.values[i].execution_id] = queries[i]

\* the longest list, all succeeded, a later task having finished before an
\* earlier one
C6_Witness ==
    /\ method = "execute_queries"
    /\ x_ret.status = "ok"
    /\ Len(queries) = MaxQueries
    /\ overtaken

C8_AllCompletedAtReturn ==
    (method = "execute_queries" /\ x_pc = "returned") =>
      \A i \in Tasks : t_pc[i] = "done"

\* the tasks of wait_for_all that are inside wait_for_completion
Polling == {i \in Tasks : t_pc[i] = "poll"}

\* C15: with capacity N, at most N of the waits of wait_for_all are in
\* progress at any moment.
C15_WaitAllBounded ==
    method = "wait_for_all" => Cardinality(Polling) <= MaxConcurrent

----------------------------------------------------------------------------
(* Properties of wait_for_completion *)

\* the step in which a status poll is answered
PollAnswered == w_pc = "request" /\ response'.polls = response.polls + 1

\* C9: a poll that observes Succeeded returns success and nothing else does;
\* Failed returns the failure with the reported reason or "Unknown error";
\* Cancelled returns the cancellation error; Queued and Running do not
\* return, the loop sleeps and then polls again unless the timeout has elapsed.
C9_WaitOutcome ==
    [][/\ PollAnswered =>
            /\ response'.state = "SUCCEEDED" =>
                 w_pc' = "returned" /\ w_ret' = [status |-> "ok"]
            /\ response'.state = "FAILED" =>
                 /\ w_pc' = "returned"
                 /\ w_ret'.status = "err"
                 /\ w_ret'.error = "Query execution failed"
                 /\ w_ret'.detail = IF response'.reason = "NONE"
                                    THEN "Unknown error" ELSE response'.reason
            /\ response'.state = "CANCELLED" =>
                 /\ w_pc' = "returned"
                 /\ w_ret'.status = "err"
                 /\ w_ret'.error = "Query execution was cancelled"
            /\ response'.state \in {"QUEUED", "RUNNING"} =>
                 w_pc' = "sleep" /\ w_ret' = [status |-> "none"]
       /\ (w_ret.status # "ok" /\ w_ret'.status = "ok") =>
            PollAnswered /\ response'.state = "SUCCEEDED"
       /\ (w_pc = "sleep" /\ w_pc' # "sleep") => w_pc' = "check"
       /\ (w_pc = "check" /\ w_pc' # "check") =>
            \/ w_pc' = "request"
            \/ /\ elapsed > timeout_seconds
               /\ w_pc' = "returned"
               /\ w_ret'.error = "Query execution timed out"]_vars

\* a second poll observed Failed without a reason
C9_Witness ==
    /\ w_pc = "returned"
    /\ response.polls >= 2
    /\ response.state = "FAILED"
    /\ response.reason = "NONE"
    /\ w_ret.status = "err"
    /\ w_ret.detail = "Unknown error"

\* C10 as stated: a poll that observes an unrecognized state or no state at
\* all does not return.
C10_UnknownOrMissingKeepsPolling ==
    [][(PollAnswered /\ response'.state \in {"UNKNOWN", "NONE"}) =>
         w_pc' = "sleep" /\ w_ret' = [status |-> "none"]]_vars

\* C10: a poll that observes an unrecognized state does not return, the loop
\* sleeps to poll again; a poll whose payload has no state returns the error
\* "Query execution state not available".
C10_UnknownKeepsPollingMissingFails ==
    [][PollAnswered =>
         /\ response'.state = "UNKNOWN" =>
              w_pc' = "sleep" /\ w_ret' = [status |-> "none"]
         /\ response'.state = "NONE" =>
              /\ w_pc' = "returned"
              /\ w_ret'.status = "err"
              /\ w_ret'.error = "Query execution state not available"]_vars

\* the status is requested again after a poll that observed an unrecognized state
C10_Witness ==
    /\ w_pc = "request"
    /\ response.polls >= 1
    /\ response.state = "UNKNOWN"

\* a timeout check made after the timeout has elapsed returns the timeout
\* error and leaves the execution alone; only status requests are sent; the
\* remote state changes only by the service's own progress
TimeoutStep ==
    /\ (w_pc = "check" /\ w_pc' # "check" /\ elapsed > timeout_seconds) =>
         (/\ w_pc' = "returned"
          /\ w_ret' = Err("Query execution timed out", timeout_seconds)
          /\ remote_state' = remote_state
          /\ requests' = requests)
    /\ requests' \subseteq {"GetQueryExecution"}
    /\ (remote_state' # remote_state) =>
         UNCHANGED <<w_pc, w_ret, elapsed, response, requests>>

\* C11: wait_for_completion always returns, also when the execution never
\* reaches a terminal state; a timeout check made after the timeout has
\* elapsed returns the timeout error whatever the remote state is; the only
\* operation ever sent is the status request, never a cancellation, and the
\* remote state changes only by the service's own progress.
C11_TimeoutTerminates ==
    /\ [][TimeoutStep]_vars
    /\ (w_pc = "check") ~> (w_pc = "returned")

\* the wait has timed out after two polls while the execution is still running
C11_Witness ==
    /\ w_pc = "returned"
    /\ w_ret = Err("Query execution timed out", timeout_seconds)
    /\ remote_state = "RUNNING"
    /\ response.polls >= 2
    /\ requests = {"GetQueryExecution"}

----------------------------------------------------------------------------
(* Properties of the remote enumeration *)

\* the (database, table) pairs the catalog listing returned
ListedTables ==
    UNION {{<<db, t>> : t \in tables_by_db[db]} : db \in DOMAIN tables_by_db}

\* the listed tables the target predicate accepts
AcceptedTables ==
    {t \in ListedTables : filter_call(target_filter, t[1], t[2])}

\* get_remote_tables is over
Enumerated ==
    \/ d_pc \in {"create", "delete", "update"}
    \/ d_pc = "done" /\ diff_result # Err("Failed to get databases from Glue", "")

\* C12: when the SHOW CREATE TABLE execution of a table has failed, the run
\* still ends with a DiffResult, the table is absent from the remote set, and
\* the local tables missing remotely are reported as Create.
C12_FetchFailureTolerated ==
    (fetch_failed # {} /\ d_pc = "done") =>
      /\ diff_result.status = "ok"
      /\ \A t \in fetch_failed : qualified_name(t[1], t[2]) \notin RemoteKeys
      /\ \A k \in LocalKeys \ RemoteKeys :
           EntriesFor(diff_result.table_diffs, k, "Create") # {}

\* C13: when listing the databases has failed, or listing the tables of a
\* database has failed, the run ends with an error and goes no further.
C13_ListingFailureAborts ==
    /\ list_failed # {} => (d_pc = "done" /\ diff_result.status = "err")
    /\ diff_result.status = "err" => d_pc = "done"

\* C14: every query a diff run submits is the SHOW CREATE TABLE of a listed
\* table the target predicate accepts, submitted once; when the enumeration
\* is over each accepted table has its query; a returned diff has no entry
\* for a key the predicate rejects.
C14_OnlyShowCreateTable ==
    /\ \A q \in DOMAIN submitted :
         /\ submitted[q] = 1
         /\ \E t \in AcceptedTables : q = show_create_table(t[1], t[2])
    /\ Enumerated =>
         \A t \in AcceptedTables : show_create_table(t[1], t[2]) \in DOMAIN submitted
    /\ diff_result.status = "ok" =>
         \A i \in DOMAIN diff_result.table_diffs :
           filter_call(target_filter,
                       diff_result.table_diffs[i].database_name,
                       diff_result.table_diffs[i].table_name)

\* a returned diff under a filter that rejected a listed table and a local
\* file, with queries submitted for the accepted tables of two databases
C14_Witness ==
    /\ diff_result.status = "ok"
    /\ ~target_filter.all
    /\ ListedTables \ AcceptedTables # {}
    /\ Cardinality(DOMAIN submitted) = 2
    /\ diff_result.table_diffs # <<>>

----------------------------------------------------------------------------
(* Properties of the target filter *)

\* value is pattern with each "*" replaced by some, possibly empty, string
RECURSIVE GlobInstance(_, _)
GlobInstance(pattern, value) ==
    IF pattern = <<>> THEN value = <<>>
    ELSE IF pattern[1] = "*"
         THEN \E k \in 0..Len(value) :
                GlobInstance(Tail(pattern), SubSeq(value, k + 1, Len(value)))
         ELSE /\ value # <<>>
              /\ value[1] = pattern[1]
              /\ GlobInstance(Tail(pattern), Tail(value))

\* positions of the dots of a pattern
Dots(pattern) == {i \in DOMAIN pattern : pattern[i] = "."}

\* a pattern of exactly two dot-separated segments
ValidPattern(pattern) == Cardinality(Dots(pattern)) = 1

\* a valid pattern matches the key, segment by segment
PatternMatchesKey(pattern, key) ==
    LET d == CHOOSE i \in Dots(pattern) : TRUE IN
    /\ GlobInstance(SubSeq(pattern, 1, d - 1), key[1])
    /\ GlobInstance(SubSeq(pattern, d + 1, Len(pattern)), key[2])

\* the valid patterns of a list, as a set
ValidOf(list) == {list[i] : i \in {j \in DOMAIN list : ValidPattern(list[j])}}

Reversed(list) == [i \in 1..Len(list) |-> list[Len(list) + 1 - i]]

\* the verdict of the predicate compiled from list for the key applied last
VerdictOf(list) == filter_call(parse_target_filter(list), f_key[1], f_key[2])

\* C16: for a list with at least one valid pattern the predicate accepts a
\* key iff one of the valid patterns matches it; dropping the malformed
\* patterns, reversing the list or repeating it gives the same verdict.
C16_MatchesSomeValidPattern ==
    (f_pc = "applied" /\ ValidOf(f_targets) # {}) =>
      /\ f_verdict <=> \E pat \in ValidOf(f_targets) : PatternMatchesKey(pat, f_key)
      /\ f_verdict = VerdictOf(SelectSeq(f_targets, ValidPattern))
      /\ f_verdict = VerdictOf(Reversed(f_targets))
      /\ f_verdict = VerdictOf(f_targets \o f_targets)

\* a malformed pattern in front of a valid one that accepts the key
C16_Witness ==
    /\ f_pc = "applied"
    /\ Len(f_targets) = 2
    /\ ~ValidPattern(f_targets[1])
    /\ ValidPattern(f_targets[2])
    /\ f_verdict

\* C17 as stated: a predicate compiled from a non-empty list without a valid
\* pattern accepts every key.
C17_NoValidPatternMatchesAll ==
    (f_pc = "applied" /\ f_targets # <<>> /\ ValidOf(f_targets) = {}) => f_verdict

\* C17: a predicate compiled from a non-empty list without a valid pattern
\* has no pattern and accepts no key, unlike the predicate of the empty list.
C17_NoValidPatternMatchesNone ==
    (f_pc = "applied" /\ f_targets # <<>> /\ ValidOf(f_targets) = {}) =>
      /\ f_filter.patterns = <<>>
      /\ ~f_verdict
      /\ VerdictOf(<<>>)

\* a list of two malformed patterns was applied
C17_Witness ==
    /\ f_pc = "applied"
    /\ Len(f_targets) = 2
    /\ ValidOf(f_targets) = {}
    /\ ~f_verdict

\* C18: the predicate of the empty list accepts every key, and so does the
\* predicate of ["*.*"].
C18_EmptyAndStarStarMatchAll ==
    (f_pc = "applied" /\ f_targets \in {<<>>, << <<"*", ".", "*">> >>}) => f_verdict

\* ["*.*"] was applied to a key
C18_Witness ==
    /\ f_pc = "applied"
    /\ f_targets = << <<"*", ".", "*">> >>
    /\ f_key = << <<"S">>, <<"o">> >>
    /\ f_verdict

\* C19: matches_pattern(value, pattern) holds iff value is pattern with each
\* "*" replaced by some string, all other characters literal and
\* case-sensitive; "*.c" accepts (s, c) and (m, c) and not (s, o); "S.C" does
\* not accept (s, c).
C19_AnchoredWildcardMatch ==
    /\ f_pc = "matched" => (f_match <=> GlobInstance(f_pattern, f_value))
    /\ (f_pc = "applied" /\ f_targets = << <<"*", ".", "c">> >>) =>
         (f_verdict <=> f_key[2] = <<"c">>)
    /\ (f_pc = "applied" /\ f_targets = << <<"S", ".", "C">> >>) =>
         (f_verdict <=> f_key = << <<"S">>, <<"C">> >>)

\* a pattern with a wildcard between two literals matched a name
C19_Witness ==
    /\ f_pc = "matched"
    /\ f_pattern = <<"c", "*", "-">>
    /\ f_value = <<"c", "C", "-">>
    /\ f_match

\* C20: resolve_targets returns the command-line list when it is not empty;
\* else one "<db>.*" per configured database, in order; else, without a
\* configured list or with an empty one, the empty list, whose predicate
\* accepts every key.
C20_ResolvePriority ==
    f_pc \in {"resolved", "compiled", "applied"} =>
      /\ f_cli # <<>> => f_targets = f_cli
      /\ (f_cli = <<>> /\ f_config.some) =>
           /\ Len(f_targets) = Len(f_config.value)
           /\ \A i \in 1..Len(f_targets) :
                f_targets[i] = f_config.value[i] \o <<".", "*">>
      /\ (f_cli = <<>> /\ (~f_config.some \/ f_config.value = <<>>)) =>
           /\ f_targets = <<>>
           /\ f_pc = "applied" => f_verdict

\* no command-line target, two configured databases, a key of the second
\* one accepted
C20_Witness ==
    /\ f_pc = "applied"
    /\ f_cli = <<>>
    /\ f_targets = << <<"s", ".", "*">>, <<"m", ".", "*">> >>
    /\ f_key[1] = <<"m">>
    /\ f_verdict

----------------------------------------------------------------------------
(* Properties of the change detection *)

\* indices of the column changes that name a column
ChangesOf(changes, name) == {i \in DOMAIN changes : changes[i].column_name = name}

\* the column change R and L call for, as a set with at most one element
ExpectedChange(R, L, name) ==
    IF name \notin DOMAIN L
    THEN {ColumnChange("Removed", name, Some(R[name]), None)}
    ELSE IF name \notin DOMAIN R
    THEN {ColumnChange("Added", name, None, Some(L[name]))}
    ELSE IF R[name] # L[name]
    THEN {ColumnChange("TypeChanged", name, Some(R[name]), Some(L[name]))}
    ELSE {}

IdInt == [name \in {Chars("id")} |-> Chars("int")]

IdBigintEmailString ==
    [name \in {Chars("id"), Chars("email")} |->
       IF name = Chars("id") THEN Chars("bigint") ELSE Chars("string")]

\* C21: the column changes for remote and local column maps R and L are one
\* Removed per name only in R, one Added per name only in L, one TypeChanged
\* per common name whose types differ, nothing for a common name with equal
\* types, each name in at most one change; `id int` against `id bigint,
\* email string` gives exactly TypeChanged(id, int, bigint) and
\* Added(email, string).
C21_ColumnChanges ==
    c_pc \in {"columns", "changes"} =>
      LET R == c_remote_columns
          L == c_local_columns
          changes == c_column_changes
      IN /\ \A i \in DOMAIN changes :
              changes[i].column_name \in DOMAIN R \cup DOMAIN L
         /\ \A name \in DOMAIN R \cup DOMAIN L :
              /\ {changes[i] : i \in ChangesOf(changes, name)} = ExpectedChange(R, L, name)
              /\ Cardinality(ChangesOf(changes, name))
                   = Cardinality(ExpectedChange(R, L, name))
         /\ (R = IdInt /\ L = IdBigintEmailString) =>
              /\ Len(changes) = 2
              /\ {changes[i] : i \in DOMAIN changes}
                   = {ColumnChange("TypeChanged", Chars("id"),
                                   Some(Chars("int")), Some(Chars("bigint"))),
                      ColumnChange("Added", Chars("email"), None, Some(Chars("string")))}

\* one column removed, one retyped and one added in the same call
C21_Witness ==
    /\ c_pc = "columns"
    /\ Len(c_column_changes) = 3
    /\ \E i, j, k \in DOMAIN c_column_changes :
         /\ c_column_changes[i].change_type = "Removed"
         /\ c_column_changes[j].change_type = "TypeChanged"
         /\ c_column_changes[k].change_type = "Added"
    /\ \E name \in DOMAIN c_remote_columns \cap DOMAIN c_local_columns :
         c_remote_columns[name] # c_local_columns[name]

Properties == {"location", "format", "partitions"}

\* the value of a property as the scan of one side finds it
PropertyValue(property_name, sql) ==
    CASE property_name = "location" -> extract_location(sql)
      [] property_name = "format" -> extract_stored_as(sql)
      [] property_name = "partitions" -> extract_partitioned_by(sql)

\* indices of the property changes with a name
EntriesNamed(changes, property_name) ==
    {i \in DOMAIN changes : changes[i].property_name = property_name}

\* C22: for each of location, format and partitions the property changes
\* hold exactly one entry when the values extracted from the remote and the
\* local DDL differ or exist on one side only, with old_value the remote value
\* or null and new_value the local value or null, and no entry otherwise;
\* STORED AS PARQUET against STORED AS ORC gives exactly {format, PARQUET, ORC}.
C22_PropertyChanges ==
    c_pc = "changes" =>
      LET changes == c_property_changes IN
      /\ \A i \in DOMAIN changes : changes[i].property_name \in Properties
      /\ \A p \in Properties :
           LET old == PropertyValue(p, c_remote_sql)
               new == PropertyValue(p, c_local_sql)
           IN IF old # new
              THEN /\ Cardinality(EntriesNamed(changes, p)) = 1
                   /\ \A i \in EntriesNamed(changes, p) :
                        changes[i] = PropertyChange(p, old, new)
              ELSE EntriesNamed(changes, p) = {}
      /\ (c_remote_sql = ParquetDdl /\ c_local_sql = OrcDdl) =>
           changes = <<PropertyChange("format", Some(Chars("PARQUET")),
                                      Some(Chars("ORC")))>>
      /\ (c_remote_sql = ParquetDdl /\ c_local_sql = LocatedDdl) =>
           changes = <<PropertyChange("location", None, Some(Chars("s3://b/t"))),
                       PropertyChange("partitions", None, Some(Chars("dt string")))>>
      /\ (c_remote_sql = LocatedDdl /\ c_local_sql = RelocatedDdl) =>
           changes = <<PropertyChange("location", Some(Chars("s3://b/t")),
                                      Some(Chars("s3://b/u"))),
                       PropertyChange("partitions", Some(Chars("dt string")),
                                      Some(Chars("day string")))>>

\* a table that lost its location and its partitions and changed its format
C22_Witness ==
    /\ c_pc = "changes"
    /\ c_remote_sql = LocatedDdl
    /\ c_local_sql = OrcDdl
    /\ c_property_changes =
         <<PropertyChange("location", Some(Chars("s3://b/t")), None),
           PropertyChange("format", Some(Chars("PARQUET")), Some(Chars("ORC"))),
           PropertyChange("partitions", Some(Chars("dt string")), None)>>

\* position of the ")" that closes the "(" before position i, 0 when there is
\* none; depth counts the brackets opened since, "<" and ">" included
RECURSIVE closing_paren(_, _, _)
closing_paren(s, i, depth) ==
    IF i > Len(s) THEN 0
    ELSE IF s[i] \in {"(", "<"} THEN closing_paren(s, i + 1, depth + 1)
    ELSE IF s[i] \in {")", ">"}
         THEN IF depth = 0 THEN i ELSE closing_paren(s, i + 1, depth - 1)
    ELSE closing_paren(s, i + 1, depth)

\* the text between the first "(" of a DDL and the ")" that closes it
ColumnList(sql) ==
    LET open == find_char(sql, "(", 1)
        close == closing_paren(sql, open + 1, 0)
    IN SubSeq(sql, open + 1, close - 1)

\* the column list of the DDL is closed
HasColumnList(sql) ==
    /\ find_char(sql, "(", 1) # 0
    /\ closing_paren(sql, find_char(sql, "(", 1) + 1, 0) # 0

\* part occurs in whole
IsInfix(part, whole) ==
    \E i \in 0..(Len(whole) - Len(part)) : SubSeq(whole, i + 1, i + Len(part)) = part

\* every name and type of columns is text of the column list of sql
FromColumnList(columns, sql) ==
    \A name \in DOMAIN columns :
      /\ IsInfix(name, to_lowercase(ColumnList(sql)))
      /\ IsInfix(columns[name], to_lowercase(ColumnList(sql)))

\* C26: the columns extracted from a DDL come from the text between its first
\* "(" and the top-level ")" that closes the column list: no name and no type
\* holds text at or after that ")", also when `) STORED AS PARQUET` follows on
\* the same line or the DDL is a single line.
C26_OnlyColumnListText ==
    c_pc = "changes" =>
      /\ HasColumnList(c_remote_sql) => FromColumnList(c_remote_columns, c_remote_sql)
      /\ HasColumnList(c_local_sql) => FromColumnList(c_local_columns, c_local_sql)

\* C23: normalization is idempotent: normalizing a normalized text returns it
\* unchanged, for texts with CRLF line endings, trailing blanks or tabs,
\* whitespace-only lines and trailing blank lines.
C23_NormalizeIdempotent ==
    c_pc = "renormalized" => c_normalized[2] = c_normalized[1]

\* a text with a trailing blank, a CRLF line ending and a whitespace-only last
\* line was normalized twice
C23_Witness ==
    /\ c_pc = "renormalized"
    /\ c_text = <<"a", " ", "\r", "\n", "\t">>
    /\ c_normalized = << <<"a">>, <<"a">> >>

----------------------------------------------------------------------------
(* Properties of execute_query *)

\* the request a step sends, "" when it sends none
Sent == IF Len(q_log') > Len(q_log) THEN q_log'[Len(q_log')] ELSE ""

\* the steps of execute_query in their order: the query is submitted first,
\* the status is requested only for the id the submission returned, result
\* pages only after the wait returned success, and nothing after a return
ExecuteOrder ==
    q_method' = "execute_query" =>
      /\ Sent = "StartQueryExecution" => q_log = <<>>
      /\ Sent = "GetQueryExecution" =>
           q_execution_id # 0 /\ q_log[1] = "StartQueryExecution"
      /\ Sent = "GetQueryResults" =>
           q_waited = Ok /\ "GetQueryExecution" \in {q_log[i] : i \in DOMAIN q_log}
      /\ q_pc = "returned" => q_log' = q_log
      /\ (q_pc = "submit" /\ q_execution_id' = 0) =>
           /\ q_pc' = "returned"
           /\ q_ret' \in {Err("Failed to start query execution", ""),
                          Err("No query execution ID returned", "")}
      /\ (q_pc = "wait" /\ q_waited'.status = "err") =>
           /\ q_pc' = "returned"
           /\ q_ret' = q_waited'

\* C24: execute_query runs submit, then the wait, then the fetch: no status
\* poll before the submission has returned an execution id, result pages only
\* after the wait has returned success, and an error of the submission or of
\* the wait is returned without running the later steps.
C24_SubmitWaitFetch == [][ExecuteOrder]_vars

\* execute_query has returned the rows after a poll that slept, a poll that
\* saw the success, the status re-read and two page requests
C24_Witness ==
    /\ q_method = "execute_query"
    /\ q_pc = "returned"
    /\ q_ret.status = "ok"
    /\ q_log = <<"StartQueryExecution", "GetQueryExecution", "GetQueryExecution",
                 "GetQueryExecution", "GetQueryResults", "GetQueryResults">>

\* the rows of the pages one after the other, a missing value as ""
RECURSIVE AllRows(_)
AllRows(pages) ==
    IF pages = <<>> THEN <<>>
    ELSE (IF Head(pages).some
          THEN [i \in 1..Len(Head(pages).value) |->
                  [k \in 1..Len(Head(pages).value[i]) |->
                     IF Head(pages).value[i][k].some
                     THEN Head(pages).value[i][k].value ELSE ""]]
          ELSE <<>>)
           \o AllRows(Tail(pages))

\* page requests the log holds
PageRequests == Cardinality({i \in DOMAIN q_log : q_log[i] = "GetQueryResults"})

\* C25: for a succeeded execution get_query_results follows the continuation
\* token until a page has none and returns the rows of all pages in page
\* order, the order inside a page kept, every row once.
C25_AllPagesInOrder ==
    (q_pc = "returned" /\ q_ret.status = "ok" /\ q_ret.query_status = "SUCCEEDED") =>
      /\ q_ret.rows = AllRows(q_pages)
      /\ PageRequests = Len(q_pages)
      /\ q_token = None

\* two pages of two rows each were fetched, the rows of the first page
\* different from those of the second
C25_Witness ==
    /\ q_pc = "returned"
    /\ q_ret.status = "ok"
    /\ Len(q_pages) = 2
    /\ q_ret.rows = << <<"a">>, <<"">>, <<"">>, <<"a">> >>

\* C27: when the result of SHOW CREATE TABLE has several rows, every row
\* contributes, in order, to the remote DDL text that is compared, which is
\* the text export writes to the table's file.
C27_EveryRowContributes ==
    (c_pc = "ddl" /\ Len(c_rows) >= 2 /\ \A i \in DOMAIN c_rows : c_rows[i] # <<>>) =>
      /\ c_ddl.some
      /\ \A i \in 2..Len(c_rows) : IsInfix(c_rows[i][1], c_ddl.value)
      /\ c_ddl = c_exported

----------------------------------------------------------------------------
(* Properties of apply *)

\* the statements the entries of diffs call for, in list order
RECURSIVE MutationPlan(_)
MutationPlan(diffs) ==
    IF diffs = <<>> THEN <<>>
    ELSE LET d == Head(diffs)
             db == [kind |-> "CREATE DATABASE IF NOT EXISTS",
                    database_name |-> d.database_name, table_name |-> <<>>]
             create == [kind |-> "CREATE TABLE", database_name |-> d.database_name,
                        table_name |-> d.table_name]
             drop == [kind |-> "DROP TABLE IF EXISTS", database_name |-> d.database_name,
                      table_name |-> d.table_name]
         IN (CASE d.operation = "Create" -> <<db, create>>
               [] d.operation = "Update" -> <<drop, db, create>>
               [] d.operation = "Delete" -> <<drop>>
               [] OTHER -> <<>>)
              \o MutationPlan(Tail(diffs))

\* the statements apply has submitted so far
Submitted == [i \in DOMAIN a_log |-> a_log[i].statement]

\* one statement in flight at most, and the statements submitted are the
\* first ones of the plan, in the order of the plan
SerialState ==
    /\ Cardinality(a_running) <= 1
    /\ a_log # <<>> =>
         /\ Len(a_log) <= Len(MutationPlan(a_diff.table_diffs))
         /\ Submitted = SubSeq(MutationPlan(a_diff.table_diffs), 1, Len(a_log))

\* a statement is submitted only when every statement before it has
\* succeeded, and nothing is submitted once apply has returned
SerialStep ==
    /\ Len(a_log') > Len(a_log) =>
         /\ a_running = {}
         /\ \A i \in DOMAIN a_log : a_log[i].outcome = "succeeded"
    /\ a_pc = "returned" => a_log' = a_log
    /\ a_ret'.status = "err" => a_pc' = "returned"

\* C28: the mutation phase of apply is serial: the table_diffs are processed
\* one at a time in list order, a statement is submitted only after the one
\* before has reached a terminal state, so at most one is in flight; CREATE
\* DATABASE completes before CREATE TABLE, DROP TABLE before the re-create,
\* and the first failing statement stops the walk.
C28_ApplySerial == []SerialState /\ [][SerialStep]_vars

\* an Update and then a Create were applied to the end
C28_Witness ==
    /\ a_pc = "returned"
    /\ a_ret = Ok
    /\ Len(a_log) = 5
    /\ a_log[1].statement.kind = "DROP TABLE IF EXISTS"
    /\ a_log[3].statement.kind = "CREATE TABLE"
    /\ a_log[5].statement.kind = "CREATE TABLE"
    /\ a_log[5].statement.table_name # a_log[3].statement.table_name

\* the answer given at the prompt: the line read, without the whitespace
\* around it
Answered == a_answer.some /\ ~a_auto_approve

\* one of the cases in which apply changes nothing
NoApplyCase ==
    \/ a_dry_run
    \/ a_diff.status = "ok" /\ a_diff.no_change
    \/ Answered /\ trim(a_answer.value) # Chars("yes")

\* C29: apply submits no mutating statement when dry_run is set, when the
\* diff has no_change, or when auto_approve is off and the answer at the
\* prompt is anything other than "yes"; in each case it returns success
\* after the diff has been displayed.
C29_NoMutationWithoutApproval ==
    NoApplyCase =>
      /\ a_log = <<>>
      /\ a_running = {}
      /\ a_pc \notin {"walk", "table", "await"}
      /\ (a_pc = "returned" /\ a_displayed) => a_ret = Ok

\* apply was cancelled by the answer "Yes" with changes pending
C29_Witness ==
    /\ a_pc = "returned"
    /\ a_ret = Ok
    /\ ~a_dry_run
    /\ ~a_diff.no_change
    /\ a_answer = Some(Chars("Yes\n"))
    /\ a_log = <<>>

----------------------------------------------------------------------------
(* Liveness of execute_queries *)

\* task i waits for a permit
Waiting(i) == i \in Tasks /\ t_pc[i] = "acquire"

\* task i has got its permit
Acquired(i) == i \in Tasks /\ t_pc[i] \in InFlight \cup {"done"}

\* every task of the batch has finished
AllFinished == \A i \in Tasks : t_pc[i] = "done"

====
